---------------------------- MODULE Spec2Model ----------------------------
(* A model of ts_utils: the Dash view state (selection, pagination,        *)
(* time range, sort order, route) and the handlers registered in           *)
(* visualization/callbacks.py, over the stores of core/data_manager.py.    *)
(*                                                                         *)
(* Text is a sequence of one-character strings, so that stripping,         *)
(* concatenation, slicing and lexicographic order are computed, not        *)
(* assumed.  A Python Optional is a sequence of length <= 1.               *)
EXTENDS Integers, Sequences, FiniteSets, TLC

VARIABLES
    (* the session's configuration and read-only data (api.py) *)
    has_exceptions,      \* df_exceptions given: routed layout and callbacks
    df,                  \* TimeseriesDataManager._df: the source rows
    df_exceptions,       \* ExceptionDataManager._df: the exception rows
    ts_ids_cache,        \* TimeseriesDataManager._ts_ids
    ranking_store,       \* dcc.Store 'ranking-store' (Optional: ranking_df rows)
    geo_store,           \* dcc.Store 'geo-store' (Optional: geo_df rows)
    display_count,       \* dcc.Store 'display-count'
    full_time_range,     \* dcc.Store 'full-time-range'
    (* stores that outlive a page render *)
    current_offset,      \* dcc.Store 'current-offset'      (page_offset)
    time_range,          \* dcc.Store 'time-range-store'    (time_range)
    pathname,            \* dcc.Location 'url'              (route)
    page,                \* "layout" before the initial load, then the page
                         \* shown: "main" or "exceptions"
    (* main page components *)
    selected_ids,        \* 'ts-selector'.value             (selected_ids)
    start_input,         \* 'time-start-input'.value
    end_input,           \* 'time-end-input'.value
    time_error,          \* 'time-range-error'.children
    graph_fig,           \* 'timeseries-graph'.figure
    sort_order,          \* 'ranking-sort-order'.value      (sort_order)
    table_data,          \* 'ranking-table'.data
    selected_rows,       \* 'ranking-table'.selected_rows
    map_fig,             \* 'map-graph'.figure
    (* exceptions page components *)
    exc_selector,        \* 'exception-ts-selector'.value
    exc_start,           \* 'exception-time-start'.value
    exc_end,             \* 'exception-time-end'.value
    exc_error,           \* 'exception-time-error'.children
    exc_map,             \* 'exception-map'.figure
    exc_graph,           \* 'exception-ts-graph'.figure
    (* history *)
    advances,            \* 'Next' clicks since current_offset was last 0
    left,                \* what the main page held when the user left it
    scans,               \* distinct/sort scans of the source table so far
    shown,               \* the page the session started with and the pages
                         \* 'Next' showed since current_offset was last 0
    (* a function called on its own *)
    call,                \* the function and its arguments
    ret,                 \* Some(what it returned), None before it returns
    (* the dispatch of one browser event *)
    pending,             \* the handlers triggered and not yet invoked
    ran                  \* the handlers invoked since the event

cfgVars   == <<has_exceptions, df, df_exceptions, ts_ids_cache, ranking_store, geo_store,
               display_count, full_time_range>>
storeVars == <<current_offset, time_range, pathname, page>>
selVars   == <<selected_ids, graph_fig, map_fig>>
timeVars  == <<start_input, end_input, time_error>>
rankVars  == <<sort_order, table_data, selected_rows>>
excVars   == <<exc_selector, exc_start, exc_end, exc_error, exc_map, exc_graph>>
histVars  == <<advances, left, scans, shown>>
fnVars    == <<call, ret>>
wireVars  == <<pending, ran>>
vars      == <<cfgVars, storeVars, selVars, timeVars, rankVars, excVars,
               histVars, fnVars, wireVars>>

-----------------------------------------------------------------------------
(* Python values *)

None        == <<>>
Some(x)     == <<x>>
IsNone(o)   == o = <<>>
Val(o)      == o[1]

\* dash.no_update, per output
NoUpdate    == [upd |-> FALSE]
Upd(v)      == [upd |-> TRUE, v |-> v]
\* the value a component holds after a callback returned r for it
Write(old, r) == IF r.upd THEN r.v ELSE old

\* F(x) with x evaluated once, however often F uses it
With(x, F(_)) == CHOOSE v \in {F(y) : y \in {x}} : TRUE

Min2(a, b) == IF a <= b THEN a ELSE b
Max2(a, b) == IF a >= b THEN a ELSE b

\* seq[a:b] of Python, negative and out-of-range indices included
PySlice(seq, a, b) ==
    LET n  == Len(seq)
        lo == IF a < 0 THEN Max2(a + n, 0) ELSE Min2(a, n)
        hi == IF b < 0 THEN Max2(b + n, 0) ELSE Min2(b, n)
    IN  IF lo >= hi THEN <<>> ELSE SubSeq(seq, lo + 1, hi)

-----------------------------------------------------------------------------
(* Characters and text *)

Digits   == <<"0", "1", "2", "3", "4", "5", "6", "7", "8", "9">>
\* the characters used, in code-point order
Alphabet == <<" ", "-", ".", "/">> \o Digits \o <<":", "T", "_", "s", "t", "x">>

CharRank(c) == CHOOSE i \in 1..Len(Alphabet) : Alphabet[i] = c
DigitSet    == {Digits[i] : i \in DOMAIN Digits}
DigitValue  == [c \in DigitSet |-> (CHOOSE i \in DOMAIN Digits : Digits[i] = c) - 1]
IsDigit(c)  == c \in DigitSet
DigitVal(c) == DigitValue[c]
IsSpace(c)  == c = " "

\* str < str of Python: lexicographic by code point, a proper prefix first
RECURSIVE StrLess(_, _)
StrLess(a, b) ==
    IF b = <<>> THEN FALSE
    ELSE IF a = <<>> THEN TRUE
    ELSE IF a[1] # b[1] THEN CharRank(a[1]) < CharRank(b[1])
    ELSE StrLess(Tail(a), Tail(b))

\* str.strip()
RECURSIVE LStrip(_)
LStrip(s) == IF s # <<>> /\ IsSpace(s[1]) THEN LStrip(Tail(s)) ELSE s
RECURSIVE RStrip(_)
RStrip(s) ==
    IF s # <<>> /\ IsSpace(s[Len(s)]) THEN RStrip(SubSeq(s, 1, Len(s) - 1)) ELSE s
Strip(s) == RStrip(LStrip(s))

-----------------------------------------------------------------------------
(* datetime.strptime and strftime, for the two formats the code uses.      *)
(* A datetime is <<year, month, day, hour, minute, second>>.               *)

\* the number of digits, and of whitespace characters, of s from position i on
RECURSIVE DigitRun(_, _)
DigitRun(s, i) == IF i <= Len(s) /\ IsDigit(s[i]) THEN 1 + DigitRun(s, i + 1) ELSE 0
RECURSIVE SpaceRun(_, _)
SpaceRun(s, i) == IF i <= Len(s) /\ IsSpace(s[i]) THEN 1 + SpaceRun(s, i + 1) ELSE 0

\* the number written by the n digits of s from position i on
RECURSIVE Num(_, _, _)
Num(s, i, n) == IF n = 0 THEN 0 ELSE 10 * Num(s, i, n - 1) + DigitVal(s[i + n - 1])

CharAt(s, i, c) == i <= Len(s) /\ s[i] = c
Take(s, n) == SubSeq(s, 1, n)

IsLeap(y) == (y % 4 = 0 /\ y % 100 # 0) \/ y % 400 = 0
DaysInMonth(y, m) ==
    IF m = 2 THEN (IF IsLeap(y) THEN 29 ELSE 28)
    ELSE IF m \in {4, 6, 9, 11} THEN 30 ELSE 31

\* The head of s against '%Y-%m-%d': [ok, y, m, d, end], end the position
\* after the day.  %Y takes four digits; %m and %d take one or two, so a
\* directive is a run of digits that ends where the next character of the
\* format is found; %d also takes a blank and one digit.
DatePart(s) ==
    LET nm == DigitRun(s, 6)
        pd == 7 + nm
        sp == IF CharAt(s, pd, " ") THEN 1 ELSE 0
        nd == DigitRun(s, pd + sp)
        ok == /\ DigitRun(s, 1) = 4 /\ CharAt(s, 5, "-")
              /\ nm \in {1, 2} /\ CharAt(s, 6 + nm, "-")
              /\ IF sp = 1 THEN nd = 1 ELSE nd \in {1, 2}
              /\ Num(s, 1, 4) >= 1
              /\ Num(s, 6, nm) \in 1..12
              /\ Num(s, pd + sp, nd) \in 1..DaysInMonth(Num(s, 1, 4), Num(s, 6, nm))
    IN  IF ok THEN [ok |-> TRUE, y |-> Num(s, 1, 4), m |-> Num(s, 6, nm),
                    d |-> Num(s, pd + sp, nd), end |-> pd + sp + nd]
        ELSE [ok |-> FALSE]

\* datetime.strptime(s, '%Y-%m-%d'): Some(datetime), None for ValueError
StrptimeDate(s) ==
    With(DatePart(s), LAMBDA p :
        IF p.ok /\ p.end = Len(s) + 1 THEN Some(<<p.y, p.m, p.d, 0, 0, 0>>) ELSE None)

\* The rest of s from position i on against ' %H:%M:%S': [ok, h, mi, sec].
\* The blank of the format matches one or more whitespace characters.
TimePart(s, i) ==
    LET ph  == i + SpaceRun(s, i)
        nh  == DigitRun(s, ph)
        pm  == ph + nh + 1
        nmi == DigitRun(s, pm)
        ps  == pm + nmi + 1
        ns  == DigitRun(s, ps)
        ok  == /\ ph > i
               /\ nh \in {1, 2} /\ CharAt(s, ph + nh, ":")
               /\ nmi \in {1, 2} /\ CharAt(s, pm + nmi, ":")
               /\ ns \in {1, 2} /\ ps + ns = Len(s) + 1
               /\ Num(s, ph, nh) <= 23 /\ Num(s, pm, nmi) <= 59 /\ Num(s, ps, ns) <= 59
    IN  IF ok THEN [ok |-> TRUE, h |-> Num(s, ph, nh), mi |-> Num(s, pm, nmi),
                    sec |-> Num(s, ps, ns)]
        ELSE [ok |-> FALSE]

\* datetime.strptime(s, '%Y-%m-%d %H:%M:%S')
StrptimeFull(s) ==
    With(DatePart(s), LAMBDA p :
        IF ~p.ok THEN None
        ELSE With(TimePart(s, p.end), LAMBDA t :
                IF t.ok THEN Some(<<p.y, p.m, p.d, t.h, t.mi, t.sec>>) ELSE None))

\* datetime < datetime
RECURSIVE TupleLess(_, _)
TupleLess(a, b) ==
    IF a = <<>> THEN FALSE
    ELSE IF a[1] # b[1] THEN a[1] < b[1]
    ELSE TupleLess(Tail(a), Tail(b))
DtLess(a, b) == TupleLess(a, b)
DtLeq(a, b)  == a = b \/ TupleLess(a, b)

Pad2(n) == <<Digits[(n \div 10) + 1], Digits[(n % 10) + 1]>>
Pad4(n) == Pad2(n \div 100) \o Pad2(n % 100)
\* dt.strftime('%Y-%m-%d %H:%M:%S')
Strftime(dt) ==
    Pad4(dt[1]) \o <<"-">> \o Pad2(dt[2]) \o <<"-">> \o Pad2(dt[3]) \o <<" ">>
    \o Pad2(dt[4]) \o <<":">> \o Pad2(dt[5]) \o <<":">> \o Pad2(dt[6])

-----------------------------------------------------------------------------
(* callbacks.parse_time_input *)

MIDNIGHT == <<" ", "0", "0", ":", "0", "0", ":", "0", "0">>

\* f"Invalid format: '{time_str}'. Use YYYY-MM-DD or YYYY-MM-DD HH:MM:SS"
InvalidFormat(time_str) ==
    <<"Invalid format: '">> \o time_str \o <<"'. Use YYYY-MM-DD or YYYY-MM-DD HH:MM:SS">>

\* A faulty variant of parse_time_input: the text as typed, blanks included,
\* goes into the result
parse_time_input_unstripped(time_str, default) ==
    IF IsNone(time_str) \/ Val(time_str) = <<>> THEN <<default, None>>
    ELSE With(Strip(Val(time_str)), LAMBDA s :
            IF s = <<>> THEN <<default, None>>
            ELSE IF ~IsNone(StrptimeFull(s)) THEN <<Some(Val(time_str)), None>>
            ELSE IF ~IsNone(StrptimeDate(s)) THEN <<Some(Val(time_str) \o MIDNIGHT), None>>
            ELSE <<None, Some(InvalidFormat(Val(time_str)))>>)

\* time_str, default: Optional text.  Returns <<parsed, error>>, both Optional.
parse_time_input(time_str, default) ==
    IF IsNone(time_str) \/ Val(time_str) = <<>> THEN <<default, None>>
    ELSE With(Strip(Val(time_str)), LAMBDA s :
            IF s = <<>> THEN <<default, None>>
            ELSE IF ~IsNone(StrptimeFull(s)) THEN <<Some(s), None>>
            ELSE IF ~IsNone(StrptimeDate(s)) THEN <<Some(s \o MIDNIGHT), None>>
            ELSE <<None, Some(InvalidFormat(s))>>)

-----------------------------------------------------------------------------
(* core/data_manager.py: TimeseriesDataManager *)

\* A source row is [ts_id |-> text, timestamp |-> datetime].

\* .select(ts_id).unique().sort(ts_id).collect()[ts_id].to_list()
RECURSIVE SortIds(_)
SortIds(S) ==
    IF S = {} THEN <<>>
    ELSE LET m == CHOOSE x \in S : \A y \in S \ {x} : StrLess(x, y)
         IN  <<m>> \o SortIds(S \ {m})
UniqueSortedIds(rows) == SortIds({rows[i].ts_id : i \in DOMAIN rows})

\* A faulty variant of cache_miss: an empty cached list counts as no cache
cache_miss_when_empty(cache) == IsNone(cache) \/ Val(cache) = <<>>

\* if self._ts_ids is None
cache_miss(cache) == IsNone(cache)

\* get_all_ts_ids: the list returned; cache is self._ts_ids
get_all_ts_ids(cache, rows) ==
    IF cache_miss(cache) THEN UniqueSortedIds(rows) ELSE Val(cache)

\* A Python argument that is a list, a str or None.
ListV(l) == [kind |-> "list", v |-> l]
StrV(s)  == [kind |-> "str", v |-> s]
NoneV    == [kind |-> "none", v |-> <<>>]
\* bool(x) of Python
Truthy(x) == x.kind # "none" /\ x.v # <<>>

IsSubstring(a, b) ==
    \E i \in 0..(Len(b) - Len(a)) : SubSeq(b, i + 1, i + Len(a)) = a
\* x in c of Python: membership in a list, substring of a str
PyIn(x, c) ==
    IF c.kind = "list" THEN \E i \in DOMAIN c.v : c.v[i] = x
    ELSE IF c.kind = "str" THEN IsSubstring(x, c.v)
    ELSE FALSE

\* the columns of the source table, as far as the rows here carry them
SourceColumns == <<"ts_id", "timestamp">>

\* A faulty variant of get_ts_data: no early return for an empty list, and
\* the query fails on it
get_ts_data_failing_on_empty(rows, ts_ids) ==
    IF ~Truthy(ts_ids) \/ ts_ids.kind = "str"
    THEN [raised |-> TRUE, rows |-> <<>>, columns |-> <<>>]
    ELSE [raised |-> FALSE,
          rows   |-> SelectSeq(rows, LAMBDA row : PyIn(row.ts_id, ts_ids)),
          columns |-> SourceColumns]

\* get_ts_data(ts_ids): [raised, rows, columns].  limit(0) and filter keep
\* the schema.  A str given to is_in names a column, not a value: the query
\* raises.
get_ts_data(rows, ts_ids) ==
    IF ~Truthy(ts_ids) THEN [raised |-> FALSE, rows |-> <<>>, columns |-> SourceColumns]
    ELSE IF ts_ids.kind = "str" THEN [raised |-> TRUE, rows |-> <<>>, columns |-> <<>>]
    ELSE [raised |-> FALSE,
          rows   |-> SelectSeq(rows, LAMBDA row : PyIn(row.ts_id, ts_ids)),
          columns |-> SourceColumns]

\* A faulty variant of get_paginated_ids: a negative offset is not clamped
get_paginated_ids_unclamped(all_ids, offset, limit) ==
    IF offset >= Len(all_ids) THEN <<>>
    ELSE PySlice(all_ids, offset, Min2(offset + limit, Len(all_ids)))

\* get_paginated_ids(offset, limit)
get_paginated_ids(all_ids, offset, limit) ==
    LET o == IF offset < 0 THEN 0 ELSE offset
    IN  IF o >= Len(all_ids) THEN <<>>
        ELSE PySlice(all_ids, o, Min2(o + limit, Len(all_ids)))

\* get_total_count()
get_total_count(all_ids) == Len(all_ids)

-----------------------------------------------------------------------------
(* core/config.py: ColumnConfig.  A column name is a string; a message is   *)
(* the sequence of the pieces it is put together from.                     *)

\* ', '.join(names)
RECURSIVE JoinNames(_)
JoinNames(names) ==
    IF names = <<>> THEN <<>>
    ELSE IF Len(names) = 1 THEN <<names[1]>>
    ELSE <<names[1], ", ">> \o JoinNames(Tail(names))

MISSING_PREFIX   == "Missing columns in dataframe: "
AVAILABLE_PREFIX == ". Available columns: "

\* the configured names that are not among df_columns, in the order validate
\* meets them
missing_columns(config, df_columns) ==
    LET absent(c) == \A i \in DOMAIN df_columns : df_columns[i] # c
    IN  SelectSeq(<<config.timestamp, config.ts_id, config.actual, config.forecast>>, absent)
        \o (IF ~IsNone(config.extrema) /\ absent(Val(config.extrema))
            THEN <<Val(config.extrema)>> ELSE <<>>)
        \o (IF ~IsNone(config.features) /\ Val(config.features) # <<>>
            THEN SelectSeq(Val(config.features), absent) ELSE <<>>)

\* A faulty variant of validate: it fails on the first missing column
validate_first_missing(config, df_columns) ==
    With(missing_columns(config, df_columns), LAMBDA missing :
        IF missing # <<>>
        THEN [raised  |-> TRUE,
              message |-> <<MISSING_PREFIX, missing[1], AVAILABLE_PREFIX>>
                          \o JoinNames(df_columns)]
        ELSE [raised |-> FALSE, message |-> <<>>])

\* ColumnConfig.validate(df_columns): [raised, message]
validate(config, df_columns) ==
    With(missing_columns(config, df_columns), LAMBDA missing :
        IF missing # <<>>
        THEN [raised  |-> TRUE,
              message |-> <<MISSING_PREFIX>> \o JoinNames(missing)
                          \o <<AVAILABLE_PREFIX>> \o JoinNames(df_columns)]
        ELSE [raised |-> FALSE, message |-> <<>>])

-----------------------------------------------------------------------------
(* api.py *)

MinDt(S) == CHOOSE x \in S : \A y \in S : DtLeq(x, y)
MaxDt(S) == CHOOSE x \in S : \A y \in S : DtLeq(y, x)

\* _get_full_time_range(df, timestamp_col)
get_full_time_range(rows) ==
    LET ts == {rows[i].timestamp : i \in DOMAIN rows}
    IN  IF ts = {} THEN [min |-> None, max |-> None]
        ELSE [min |-> Some(Strftime(MinDt(ts))), max |-> Some(Strftime(MaxDt(ts)))]

\* _build_geo_dataframe(ranking_df, ts_id_col): the rows of geo_df; the
\* colour column is the first one that is not the id, latitude or longitude
build_geo_dataframe(ranking) ==
    LET color_cols == SelectSeq(ranking.columns,
                         LAMBDA c : c \notin {"ts_id", "latitude", "longitude"})
    IN  [i \in DOMAIN ranking.rows |->
            IF color_cols # <<>>
            THEN [ts_id       |-> ranking.rows[i].ts_id,
                  latitude    |-> ranking.rows[i].latitude,
                  longitude   |-> ranking.rows[i].longitude,
                  color_value |-> ranking.rows[i][color_cols[1]]]
            ELSE [ts_id       |-> ranking.rows[i].ts_id,
                  latitude    |-> ranking.rows[i].latitude,
                  longitude   |-> ranking.rows[i].longitude]]

HasGeoColumns(ranking) ==
    /\ \E i \in DOMAIN ranking.columns : ranking.columns[i] = "latitude"
    /\ \E i \in DOMAIN ranking.columns : ranking.columns[i] = "longitude"

EXCEPTION_COL_ERROR == <<"exception_count_col is required when df_exceptions is provided">>
EXCEPTION_GEO_ERROR ==
    <<"df_exceptions requires ranking_df with latitude/longitude columns for map display">>

\* A faulty variant of visualize_timeseries: the exceptions page is set up
\* without asking for a map
visualize_timeseries_without_map(args) ==
    With(validate(args.config, args.columns), LAMBDA v :
        IF v.raised THEN [raised |-> TRUE, error |-> v.message, pages |-> {}]
        ELSE IF args.df_exceptions /\ IsNone(args.exception_count_col)
        THEN [raised |-> TRUE, error |-> EXCEPTION_COL_ERROR, pages |-> {}]
        ELSE IF args.df_exceptions
        THEN [raised |-> FALSE, error |-> <<>>, pages |-> {"main", "exceptions"}]
        ELSE [raised |-> FALSE, error |-> <<>>, pages |-> {"main"}])

\* visualize_timeseries(df, ..., ranking_df, df_exceptions,
\* exception_count_col): [raised, error, pages], pages what the application
\* returned can render; args.df_exceptions says whether one was given
visualize_timeseries(args) ==
    With(validate(args.config, args.columns), LAMBDA v :
        IF v.raised THEN [raised |-> TRUE, error |-> v.message, pages |-> {}]
        ELSE IF args.df_exceptions /\ IsNone(args.exception_count_col)
        THEN [raised |-> TRUE, error |-> EXCEPTION_COL_ERROR, pages |-> {}]
        ELSE IF args.df_exceptions
                /\ ~(~IsNone(args.ranking_df) /\ HasGeoColumns(Val(args.ranking_df)))
        THEN [raised |-> TRUE, error |-> EXCEPTION_GEO_ERROR, pages |-> {}]
        ELSE IF args.df_exceptions
        THEN [raised |-> FALSE, error |-> <<>>, pages |-> {"main", "exceptions"}]
        ELSE [raised |-> FALSE, error |-> <<>>, pages |-> {"main"}])

-----------------------------------------------------------------------------
(* visualization/app.py and components.py: the figures *)

\* datetime as plotly serialises it
IsoFormat(dt) ==
    Pad4(dt[1]) \o <<"-">> \o Pad2(dt[2]) \o <<"-">> \o Pad2(dt[3]) \o <<"T">>
    \o Pad2(dt[4]) \o <<":">> \o Pad2(dt[5]) \o <<":">> \o Pad2(dt[6])

\* A chart: its title, one entry per trace, and the x axis: an Optional
\* range <<lo, hi>> of Optional texts and an Optional autorange flag.
EmptyFig(title) ==
    [title |-> title, traces |-> <<>>, xrange |-> None, autorange |-> None]

RECURSIVE SortStamps(_)
\* .sort(timestamp) of the rows of one series, as the list of its timestamps
SortStamps(S) ==
    IF S = {} THEN <<>>
    ELSE LET m == CHOOSE x \in S : \A y \in S : DtLeq(x, y)
         IN  <<m>> \o SortStamps(S \ {m})
StampsOf(rows, id) == SortStamps({rows[i].timestamp : i \in {j \in DOMAIN rows : rows[j].ts_id = id}})

\* the bindings visualize_timeseries has by default: no extrema column and
\* no features
DEFAULT_CONFIG ==
    [timestamp |-> "timestamp", ts_id |-> "ts_id", actual |-> "actual_value",
     forecast |-> "forecasted_value", extrema |-> None, features |-> None]

\* the rows of a series whose extrema value is not null; a null is None
extrema_data(rows, id, config) ==
    SelectSeq(rows, LAMBDA row : row.ts_id = id /\ ~IsNone(row[Val(config.extrema)]))

\* A faulty variant of SeriesTraces: an extrema trace for every series once
\* the column is bound
RECURSIVE SeriesTraces_extrema_always(_, _, _)
SeriesTraces_extrema_always(rows, ids, config) ==
    IF ids = <<>> THEN <<>>
    ELSE <<[id |-> ids[1], kind |-> "actual", x |-> StampsOf(rows, ids[1])],
           [id |-> ids[1], kind |-> "forecast", x |-> StampsOf(rows, ids[1])]>>
         \o (IF ~IsNone(config.extrema)
             THEN <<[id |-> ids[1], kind |-> "extrema",
                     x |-> StampsOf(extrema_data(rows, ids[1], config), ids[1])]>>
             ELSE <<>>)
         \o SeriesTraces_extrema_always(rows, Tail(ids), config)

\* the traces of each id, in the order given: '<id> (actual)', '<id>
\* (forecast)' and, with an extrema column and a value in it, '<id>
\* (extrema)'; x the timestamps of the rows, sorted
RECURSIVE SeriesTraces(_, _, _)
SeriesTraces(rows, ids, config) ==
    IF ids = <<>> THEN <<>>
    ELSE <<[id |-> ids[1], kind |-> "actual", x |-> StampsOf(rows, ids[1])],
           [id |-> ids[1], kind |-> "forecast", x |-> StampsOf(rows, ids[1])]>>
         \o (IF ~IsNone(config.extrema) /\ extrema_data(rows, ids[1], config) # <<>>
             THEN <<[id |-> ids[1], kind |-> "extrema",
                     x |-> StampsOf(extrema_data(rows, ids[1], config), ids[1])]>>
             ELSE <<>>)
         \o SeriesTraces(rows, Tail(ids), config)

\* the actual and forecast trace of each id, in the order given
TracesOf(rows, ids) == SeriesTraces(rows, ids, DEFAULT_CONFIG)

\* min() and max() of a column: None for a table without rows
col_min(rows, col) ==
    IF rows = <<>> THEN None
    ELSE Some(CHOOSE x \in {rows[i][col] : i \in DOMAIN rows} :
                  \A i \in DOMAIN rows : x <= rows[i][col])
col_max(rows, col) ==
    IF rows = <<>> THEN None
    ELSE Some(CHOOSE x \in {rows[i][col] : i \in DOMAIN rows} :
                  \A i \in DOMAIN rows : x >= rows[i][col])

\* a / b of two numbers, kept exact as the pair of the two; b = 0 is the
\* division by zero
HALF == [num |-> 1, den |-> 2]
TrueDiv(a, b) == IF b = 0 THEN [error |-> "division by zero"] ELSE [num |-> a, den |-> b]

\* A faulty variant of minmax_scale: a column is divided by its extent
\* whether it is constant or not
minmax_scale_unguarded(rows, columns) ==
    [c \in {columns[k] : k \in DOMAIN columns} |->
        [i \in DOMAIN rows |->
            TrueDiv(rows[i][c] - Val(col_min(rows, c)),
                    Val(col_max(rows, c)) - Val(col_min(rows, c)))]]

\* _minmax_scale(df, columns): the columns added, the column "{col}_scaled"
\* under the name col
minmax_scale(rows, columns) ==
    [c \in {columns[k] : k \in DOMAIN columns} |->
        IF col_max(rows, c) # col_min(rows, c)
        THEN [i \in DOMAIN rows |->
                 TrueDiv(rows[i][c] - Val(col_min(rows, c)),
                         Val(col_max(rows, c)) - Val(col_min(rows, c)))]
        ELSE [i \in DOMAIN rows |-> HALF]]

\* bool(config.features)
has_features(config) == ~IsNone(config.features) /\ Val(config.features) # <<>>

\* _add_feature_traces(fig, df, config): one trace per feature, named by
\* it, over the timestamps of all rows
add_feature_traces(rows, config) ==
    IF ~has_features(config) THEN <<>>
    ELSE [i \in DOMAIN Val(config.features) |->
            [id |-> <<Val(config.features)[i]>>, kind |-> "feature",
             x |-> SortStamps({rows[j].timestamp : j \in DOMAIN rows})]]

\* _create_figure_with_features(df, config): the x axis has no range set
create_figure_with_features(rows, config) ==
    [title     |-> "Timeseries Visualization",
     traces    |-> SeriesTraces(rows, UniqueSortedIds(rows), config)
                   \o add_feature_traces(rows, config),
     xrange    |-> None,
     autorange |-> None]

\* A faulty variant of create_figure: no placeholder for an empty table
create_figure_unguarded(rows, config) ==
    IF has_features(config) THEN create_figure_with_features(rows, config)
    ELSE [title     |-> "Timeseries Visualization",
          traces    |-> SeriesTraces(rows, UniqueSortedIds(rows), config),
          xrange    |-> None,
          autorange |-> None]

\* create_figure(df, config)
create_figure(rows, config) ==
    IF Len(rows) = 0 THEN EmptyFig("No data selected")
    ELSE IF has_features(config) THEN create_figure_with_features(rows, config)
    ELSE LET ts == {rows[i].timestamp : i \in DOMAIN rows}
         IN  [title     |-> "Timeseries Visualization",
              traces    |-> SeriesTraces(rows, UniqueSortedIds(rows), config),
              xrange    |-> Some(<<Some(IsoFormat(MinDt(ts))), Some(IsoFormat(MaxDt(ts)))>>),
              autorange |-> None]

SIZE_SELECTED   == 18
SIZE_UNSELECTED == 10

\* x * 0.1 or 0.01, in hundredths of a degree, for x in whole degrees
margin(x) == IF x * 10 # 0 THEN x * 10 ELSE 1

\* fig.update_layout(mapbox=dict(style, bounds)), the bounds in hundredths
\* of a degree; nothing else of the mapbox is set
map_layout(geo_rows) ==
    With(Val(col_min(geo_rows, "latitude")), LAMBDA lat_min :
    With(Val(col_max(geo_rows, "latitude")), LAMBDA lat_max :
    With(Val(col_min(geo_rows, "longitude")), LAMBDA lon_min :
    With(Val(col_max(geo_rows, "longitude")), LAMBDA lon_max :
        [bounds |-> [west  |-> 100 * lon_min - margin(lon_max - lon_min),
                     east  |-> 100 * lon_max + margin(lon_max - lon_min),
                     south |-> 100 * lat_min - margin(lat_max - lat_min),
                     north |-> 100 * lat_max + margin(lat_max - lat_min)],
         center |-> None]))))

\* create_map_figure(geo_df, selected_ts_ids, ts_id_col); the extent of a
\* geo_df without rows is None, and None - None raises
create_map_figure(geo_rows, selected_ts_ids) ==
    LET sel == IF selected_ts_ids.kind = "none" THEN ListV(<<>>) ELSE selected_ts_ids
    IN  IF geo_rows = <<>> THEN [raised |-> "TypeError"]
        ELSE [customdata |-> [i \in DOMAIN geo_rows |-> geo_rows[i].ts_id],
              size       |-> [i \in DOMAIN geo_rows |->
                                 IF PyIn(geo_rows[i].ts_id, sel)
                                 THEN SIZE_SELECTED ELSE SIZE_UNSELECTED],
              color      |-> [i \in DOMAIN geo_rows |->
                                 IF "color_value" \in DOMAIN geo_rows[i]
                                 THEN Some(geo_rows[i].color_value) ELSE None],
              mapbox     |-> map_layout(geo_rows)]

\* A faulty variant of initial_value: every id is selected at the start
initial_value_all(ts_ids, count) == ts_ids

\* create_ts_selector: the initial value of 'ts-selector'
initial_value(ts_ids, count) == IF ts_ids # <<>> THEN PySlice(ts_ids, 0, count) ELSE <<>>

-----------------------------------------------------------------------------
(* visualization/callbacks.py: the main page handlers, as registered by    *)
(* register_callbacks and again by register_routing_callbacks.  A handler  *)
(* returns, per output, Upd(value) or NoUpdate; PreventUpdate is NoUpdate  *)
(* for every output.                                                       *)

\* update_graph(selected_ids), config the data manager's; selected_ids is a
\* list or None
update_graph(rows, selected, config) ==
    IF ~Truthy(selected) THEN EmptyFig("No timeseries selected")
    ELSE create_figure(get_ts_data(rows, selected).rows, config)

\* update_graph_with_features(selected_ids, features_toggle): the features
\* are charted when the toggle holds 'show'
update_graph_with_features(rows, selected, features_toggle, config) ==
    IF ~Truthy(selected) THEN EmptyFig("No timeseries selected")
    ELSE IF Truthy(features_toggle) /\ PyIn(<<"show">>, features_toggle)
    THEN create_figure(get_ts_data(rows, selected).rows, config)
    ELSE create_figure(get_ts_data(rows, selected).rows,
                       [config EXCEPT !.features = None])

\* Faulty variants of handle_next_button, which the pagination properties
\* must tell from it: the ids of the page left behind, a partial last page
\* taken for the end of the list, and no wrap at all.
handle_next_button_lagging(all_ids, n_clicks, offset, count) ==
    IF n_clicks = 0 THEN [ids |-> NoUpdate, offset |-> NoUpdate]
    ELSE IF get_paginated_ids(all_ids, offset + count, count) = <<>>
    THEN [ids |-> Upd(get_paginated_ids(all_ids, offset, count)), offset |-> Upd(0)]
    ELSE [ids |-> Upd(get_paginated_ids(all_ids, offset, count)),
          offset |-> Upd(offset + count)]
handle_next_button_early_wrap(all_ids, n_clicks, offset, count) ==
    IF n_clicks = 0 THEN [ids |-> NoUpdate, offset |-> NoUpdate]
    ELSE IF Len(get_paginated_ids(all_ids, offset + count, count)) < count
    THEN [ids |-> Upd(get_paginated_ids(all_ids, 0, count)), offset |-> Upd(0)]
    ELSE [ids |-> Upd(get_paginated_ids(all_ids, offset + count, count)),
          offset |-> Upd(offset + count)]
handle_next_button_no_wrap(all_ids, n_clicks, offset, count) ==
    IF n_clicks = 0 THEN [ids |-> NoUpdate, offset |-> NoUpdate]
    ELSE [ids |-> Upd(get_paginated_ids(all_ids, offset + count, count)),
          offset |-> Upd(offset + count)]

\* A faulty variant of handle_next_button: pages of two or more ids overlap
\* by one
handle_next_button_overlapping(all_ids, n_clicks, offset, count) ==
    IF n_clicks = 0 THEN [ids |-> NoUpdate, offset |-> NoUpdate]
    ELSE LET new_offset == offset + (IF count >= 2 THEN count - 1 ELSE count)
             new_ids    == get_paginated_ids(all_ids, new_offset, count)
         IN  IF new_ids = <<>>
             THEN [ids |-> Upd(get_paginated_ids(all_ids, 0, count)), offset |-> Upd(0)]
             ELSE [ids |-> Upd(new_ids), offset |-> Upd(new_offset)]

\* handle_next_button(n_clicks, current_offset, display_count_state):
\* [ids, offset], the outputs 'ts-selector'.value and 'current-offset'.data
handle_next_button(all_ids, n_clicks, offset, count) ==
    IF n_clicks = 0 THEN [ids |-> NoUpdate, offset |-> NoUpdate]
    ELSE LET new_offset == offset + count
             new_ids    == get_paginated_ids(all_ids, new_offset, count)
         IN  IF new_ids = <<>>
             THEN [ids |-> Upd(get_paginated_ids(all_ids, 0, count)), offset |-> Upd(0)]
             ELSE [ids |-> Upd(new_ids), offset |-> Upd(new_offset)]

\* bool(s) of an Optional str
TruthyText(o) == ~IsNone(o) /\ Val(o) # <<>>

ORDER_ERROR == <<"Start time must be before end time">>

\* A faulty variant of OrderRejected: equal bounds pass
OrderRejected_equal_passes(start_time, end_time) ==
    /\ TruthyText(start_time) /\ TruthyText(end_time)
    /\ With(StrptimeFull(Val(start_time)), LAMBDA start_dt :
       With(StrptimeFull(Val(end_time)), LAMBDA end_dt :
           /\ ~IsNone(start_dt) /\ ~IsNone(end_dt)
           /\ DtLess(Val(end_dt), Val(start_dt))))

\* The ordering test both time-range handlers make after parsing: TRUE when
\* the ordering error is to be returned.
OrderRejected(start_time, end_time) ==
    /\ TruthyText(start_time) /\ TruthyText(end_time)
    /\ With(StrptimeFull(Val(start_time)), LAMBDA start_dt :
       With(StrptimeFull(Val(end_time)), LAMBDA end_dt :
           /\ ~IsNone(start_dt) /\ ~IsNone(end_dt)      \* else ValueError: pass
           /\ DtLeq(Val(end_dt), Val(start_dt))))

\* A faulty variant of update_time_range: a rejected input empties the two
\* inputs
update_time_range_clearing(triggered_id, start_in, end_in, full_range) ==
    IF triggered_id = "time-reset-button"
    THEN [store |-> Upd(None), error |-> Upd(Some(<<>>)),
          start |-> Upd(Some(<<>>)), end |-> Upd(Some(<<>>))]
    ELSE LET default_start == IF IsNone(full_range) THEN None ELSE Val(full_range).min
             default_end   == IF IsNone(full_range) THEN None ELSE Val(full_range).max
         IN  With(parse_time_input(start_in, default_start), LAMBDA s :
             With(parse_time_input(end_in, default_end), LAMBDA e :
                 IF TruthyText(s[2])
                 THEN [store |-> NoUpdate, error |-> Upd(s[2]),
                       start |-> Upd(Some(<<>>)), end |-> Upd(Some(<<>>))]
                 ELSE IF TruthyText(e[2])
                 THEN [store |-> NoUpdate, error |-> Upd(e[2]),
                       start |-> Upd(Some(<<>>)), end |-> Upd(Some(<<>>))]
                 ELSE IF OrderRejected(s[1], e[1])
                 THEN [store |-> NoUpdate, error |-> Upd(Some(ORDER_ERROR)),
                       start |-> Upd(Some(<<>>)), end |-> Upd(Some(<<>>))]
                 ELSE [store |-> Upd(Some([start |-> s[1], end |-> e[1]])),
                       error |-> Upd(Some(<<>>)), start |-> NoUpdate, end |-> NoUpdate]))

\* update_time_range(start_input, end_input, reset_clicks, full_range,
\* current_range) with ctx.triggered_id = triggered_id:
\* [store, error, start, end]
update_time_range(triggered_id, start_in, end_in, full_range) ==
    IF triggered_id = "time-reset-button"
    THEN [store |-> Upd(None), error |-> Upd(Some(<<>>)),
          start |-> Upd(Some(<<>>)), end |-> Upd(Some(<<>>))]
    ELSE LET default_start == IF IsNone(full_range) THEN None ELSE Val(full_range).min
             default_end   == IF IsNone(full_range) THEN None ELSE Val(full_range).max
         IN  With(parse_time_input(start_in, default_start), LAMBDA s :
             IF TruthyText(s[2])
             THEN [store |-> NoUpdate, error |-> Upd(s[2]), start |-> NoUpdate, end |-> NoUpdate]
             ELSE With(parse_time_input(end_in, default_end), LAMBDA e :
                 IF TruthyText(e[2])
                 THEN [store |-> NoUpdate, error |-> Upd(e[2]),
                       start |-> NoUpdate, end |-> NoUpdate]
                 ELSE IF OrderRejected(s[1], e[1])
                 THEN [store |-> NoUpdate, error |-> Upd(Some(ORDER_ERROR)),
                       start |-> NoUpdate, end |-> NoUpdate]
                 ELSE [store |-> Upd(Some([start |-> s[1], end |-> e[1]])),
                       error |-> Upd(Some(<<>>)), start |-> NoUpdate, end |-> NoUpdate]))

\* A faulty variant of apply_time_range_to_graph: a cleared range leaves
\* the figure as it is
apply_time_range_to_graph_keeping(range, current_fig) ==
    IF IsNone(current_fig) \/ IsNone(range) THEN NoUpdate
    ELSE Upd(Some([Val(current_fig) EXCEPT
                      !.xrange = Some(<<Val(range).start, Val(range).end>>)]))

\* apply_time_range_to_graph(time_range, current_fig): the output
\* 'timeseries-graph'.figure
apply_time_range_to_graph(range, current_fig) ==
    IF IsNone(current_fig) THEN NoUpdate
    ELSE LET fig == Val(current_fig)
         IN  IF IsNone(range) THEN Upd(Some([fig EXCEPT !.autorange = Some(TRUE)]))
             ELSE LET start == Val(range).start
                      end   == Val(range).end
                  IN  IF TruthyText(start) /\ TruthyText(end)
                      THEN Upd(Some([fig EXCEPT !.xrange = Some(<<start, end>>)]))
                      ELSE IF TruthyText(start)
                      THEN Upd(Some([fig EXCEPT !.xrange = Some(<<start, None>>)]))
                      ELSE IF TruthyText(end)
                      THEN Upd(Some([fig EXCEPT !.xrange = Some(<<None, end>>)]))
                      ELSE Upd(Some([fig EXCEPT !.autorange = Some(TRUE)]))

\* A faulty variant of ranking_col: the last column that is not the id
ranking_col_last(columns) ==
    With(SelectSeq(columns, LAMBDA c : c # "ts_id"), LAMBDA others : others[Len(others)])

\* the column handle_sort_order_change sorts by
ranking_col(columns) == SelectSeq(columns, LAMBDA c : c # "ts_id")[1]

IsPermutation(a, b) ==
    /\ Len(a) = Len(b)
    /\ \E f \in [DOMAIN a -> DOMAIN a] :
          /\ \A i, j \in DOMAIN a : i # j => f[i] # f[j]
          /\ \A i \in DOMAIN a : b[i] = a[f[i]]

\* handle_sort_order_change(sort_order, ranking_data): the row orders
\* df.sort(ranking_col, descending=...) may return (ties in any order)
handle_sort_order_change(order, ranking) ==
    LET col  == ranking_col(ranking.columns)
        rows == ranking.rows
        n    == Len(rows)
    IN  { [i \in 1..n |-> rows[f[i]]] :
            f \in { g \in [1..n -> 1..n] :
                      /\ \A i, j \in 1..n : i # j => g[i] # g[j]
                      /\ \A i \in 1..(n - 1) :
                            IF order = "desc"
                            THEN rows[g[i]][col] >= rows[g[i + 1]][col]
                            ELSE rows[g[i]][col] <= rows[g[i + 1]][col] } }

\* A faulty variant of handle_ranking_selection: the id of the first row,
\* whichever row was clicked
handle_ranking_selection_first_row(rows_selected, data) ==
    IF rows_selected = <<>> THEN NoUpdate ELSE Upd(<<data[1].ts_id>>)

\* handle_ranking_selection(selected_rows, table_data): 'ts-selector'.value
handle_ranking_selection(rows_selected, data) ==
    IF rows_selected = <<>> THEN NoUpdate
    ELSE Upd(<<data[rows_selected[1] + 1].ts_id>>)

\* A faulty variant of update_map_highlight: the selection is not passed on
update_map_highlight_unselected(ids, geo_data) == create_map_figure(geo_data, ListV(<<>>))

\* update_map_highlight(selected_ids, geo_data, ts_id_col_state)
update_map_highlight(ids, geo_data) == create_map_figure(geo_data, ListV(ids))

\* A clickData value: None, or the clicked point with its Optional customdata.
ClickOf(customdata) == Some([customdata |-> customdata])

\* A faulty variant of handle_map_click: a click without an id empties the
\* selection
handle_map_click_clearing(click_data) ==
    IF IsNone(click_data) THEN Upd(<<>>)
    ELSE IF IsNone(Val(click_data).customdata) THEN Upd(<<>>)
    ELSE Upd(<<Val(Val(click_data).customdata)>>)

\* handle_map_click(click_data) and exception_map_click_handler(click_data)
handle_map_click(click_data) ==
    IF IsNone(click_data) THEN NoUpdate
    ELSE IF IsNone(Val(click_data).customdata) THEN NoUpdate
    ELSE Upd(<<Val(Val(click_data).customdata)>>)

\* exception_map_click_handler(click_data): 'exception-ts-selector'.value
exception_map_click_handler(click_data) ==
    IF IsNone(click_data) THEN NoUpdate
    ELSE IF IsNone(Val(click_data).customdata) THEN NoUpdate
    ELSE Upd(ListV(<<Val(Val(click_data).customdata)>>))

-----------------------------------------------------------------------------
(* core/data_manager.py: ExceptionDataManager *)

\* An exception row is [ts_id, timestamp, count].

\* _parse_time_string(time_str); the handlers pass only parsed texts
parse_time_string(time_str) ==
    With(StrptimeFull(time_str), LAMBDA dt :
        IF ~IsNone(dt) THEN dt ELSE StrptimeDate(time_str))

\* A faulty variant of TimeFiltered: the end bound is exclusive
TimeFiltered_open_end(rows, start_time, end_time) ==
    With(IF TruthyText(start_time) THEN parse_time_string(Val(start_time)) ELSE None,
         LAMBDA start_dt :
    With(IF TruthyText(end_time) THEN parse_time_string(Val(end_time)) ELSE None,
         LAMBDA end_dt :
        SelectSeq(rows, LAMBDA row :
            /\ TruthyText(start_time) => DtLeq(Val(start_dt), row.timestamp)
            /\ TruthyText(end_time) => DtLess(row.timestamp, Val(end_dt)))))

\* the rows left by the two optional timestamp filters
TimeFiltered(rows, start_time, end_time) ==
    With(IF TruthyText(start_time) THEN parse_time_string(Val(start_time)) ELSE None,
         LAMBDA start_dt :
    With(IF TruthyText(end_time) THEN parse_time_string(Val(end_time)) ELSE None,
         LAMBDA end_dt :
        SelectSeq(rows, LAMBDA row :
            /\ TruthyText(start_time) => DtLeq(Val(start_dt), row.timestamp)
            /\ TruthyText(end_time) => DtLeq(row.timestamp, Val(end_dt)))))

\* A faulty variant of SumCount: the first count of the group in place of
\* the sum
SumCount_first(rows) == IF rows = <<>> THEN 0 ELSE rows[1].count

\* pl.col(exception_count_col).sum() over the rows of one group
RECURSIVE SumCount(_)
SumCount(rows) == IF rows = <<>> THEN 0 ELSE rows[1].count + SumCount(Tail(rows))

\* get_aggregated_exceptions(start_time, end_time): exception_sum by ts_id,
\* for the ids that have a row in the interval
get_aggregated_exceptions(rows, start_time, end_time) ==
    With(TimeFiltered(rows, start_time, end_time), LAMBDA q :
        [id \in {q[i].ts_id : i \in DOMAIN q} |->
            SumCount(SelectSeq(q, LAMBDA row : row.ts_id = id))])

-----------------------------------------------------------------------------
(* visualization/callbacks.py: the exceptions page handlers *)

\* x[:19] if len(str(x)) > 19 else str(x)
\* A faulty variant of Truncate19: the bound as the chart reports it
Truncate19_whole(x) == x

Truncate19(x) == IF Len(x) > 19 THEN Take(x, 19) ELSE x

\* relayoutData: [r0, r1: Optional text, autorange: BOOLEAN], the keys
\* 'xaxis.range[0]', 'xaxis.range[1]' and 'xaxis.autorange'
\* The start and end texts update_exception_map goes on with.
RelayoutInputs(triggered_id, start_in, end_in, relayout) ==
    IF triggered_id = "exception-ts-graph" /\ ~IsNone(relayout)
    THEN IF Val(relayout).autorange THEN <<Some(<<>>), Some(<<>>)>>
         ELSE IF TruthyText(Val(relayout).r0) /\ TruthyText(Val(relayout).r1)
         THEN <<Some(Truncate19(Val(Val(relayout).r0))),
                Some(Truncate19(Val(Val(relayout).r1)))>>
         ELSE <<start_in, end_in>>
    ELSE <<start_in, end_in>>

\* A faulty variant of JoinExceptions: an inner join
JoinExceptions_inner(geo_rows, sums) ==
    With(SelectSeq(geo_rows, LAMBDA row : row.ts_id \in DOMAIN sums), LAMBDA kept :
        [i \in DOMAIN kept |->
            [ts_id       |-> kept[i].ts_id,
             latitude    |-> kept[i].latitude,
             longitude   |-> kept[i].longitude,
             color_value |-> sums[kept[i].ts_id]]])

\* geo_df.join(exception_sums, how='left') with exception_sum.fill_null(0)
\* as color_value
JoinExceptions(geo_rows, sums) ==
    [i \in DOMAIN geo_rows |->
        [ts_id       |-> geo_rows[i].ts_id,
         latitude    |-> geo_rows[i].latitude,
         longitude   |-> geo_rows[i].longitude,
         color_value |-> IF geo_rows[i].ts_id \in DOMAIN sums
                         THEN sums[geo_rows[i].ts_id] ELSE 0]]

OrEmpty(o) == IF TruthyText(o) THEN o ELSE Some(<<>>)

\* update_exception_map(...) with ctx.triggered_id = triggered_id:
\* [map, error, start, end]
update_exception_map(triggered_id, start_in, end_in, selected, relayout, geo_rows, full_range, exc_rows) ==
    LET default_start == IF IsNone(full_range) THEN None ELSE Val(full_range).min
        default_end   == IF IsNone(full_range) THEN None ELSE Val(full_range).max
    IN  With(RelayoutInputs(triggered_id, start_in, end_in, relayout), LAMBDA inp :
        With(parse_time_input(inp[1], default_start), LAMBDA s :
        With(parse_time_input(inp[2], default_end), LAMBDA e :
            IF TruthyText(s[2])
            THEN [map |-> NoUpdate, error |-> Upd(s[2]), start |-> NoUpdate, end |-> NoUpdate]
            ELSE IF TruthyText(e[2])
            THEN [map |-> NoUpdate, error |-> Upd(e[2]), start |-> NoUpdate, end |-> NoUpdate]
            ELSE IF OrderRejected(s[1], e[1])
            THEN [map |-> NoUpdate, error |-> Upd(Some(ORDER_ERROR)),
                  start |-> NoUpdate, end |-> NoUpdate]
            ELSE With(create_map_figure(
                          JoinExceptions(geo_rows,
                              get_aggregated_exceptions(exc_rows, s[1], e[1])),
                          IF Truthy(selected) THEN selected ELSE ListV(<<>>)), LAMBDA fig :
                IF triggered_id = "exception-ts-graph"
                THEN [map |-> Upd(Some(fig)), error |-> Upd(Some(<<>>)),
                      start |-> Upd(OrEmpty(inp[1])), end |-> Upd(OrEmpty(inp[2]))]
                ELSE [map |-> Upd(Some(fig)), error |-> Upd(Some(<<>>)),
                      start |-> NoUpdate, end |-> NoUpdate]))))

\* update_exception_graph(selected_ts_ids, start_input, end_input,
\* full_range): 'exception-ts-graph'.figure; a handler that raises updates
\* nothing
update_exception_graph(rows, selected, start_in, end_in, full_range) ==
    IF ~Truthy(selected) THEN Upd(Some(EmptyFig("No timeseries selected")))
    ELSE LET default_start == IF IsNone(full_range) THEN None ELSE Val(full_range).min
             default_end   == IF IsNone(full_range) THEN None ELSE Val(full_range).max
         IN  With(get_ts_data(rows, selected), LAMBDA data :
             IF data.raised THEN NoUpdate
             ELSE With(create_figure(data.rows, DEFAULT_CONFIG), LAMBDA fig :
                  With(parse_time_input(start_in, default_start)[1], LAMBDA start_time :
                  With(parse_time_input(end_in, default_end)[1], LAMBDA end_time :
                      IF TruthyText(start_time) /\ TruthyText(end_time)
                      THEN Upd(Some([fig EXCEPT !.xrange = Some(<<start_time, end_time>>)]))
                      ELSE IF TruthyText(start_time)
                      THEN Upd(Some([fig EXCEPT !.xrange = Some(<<start_time, None>>)]))
                      ELSE IF TruthyText(end_time)
                      THEN Upd(Some([fig EXCEPT !.xrange = Some(<<None, end_time>>)]))
                      ELSE Upd(Some(fig))))))

\* create_exception_ts_selector: the initial value of the single select
exception_initial_value(ts_ids) == IF ts_ids # <<>> THEN StrV(ts_ids[1]) ELSE NoneV

\* display_page(pathname, ts_ids_store): the page rendered
display_page(path) == IF path = "/exceptions" THEN "exceptions" ELSE "main"

-----------------------------------------------------------------------------
(* The sessions explored: what visualize_timeseries is called with *)

MaxSeries  == 3      \* series in the source table: 0..MaxSeries
MaxRows    == 2      \* timestamps per series: at most MaxRows
MaxDisplay == 2      \* display_count: 0..MaxDisplay
MaxPicked  == 1      \* ids a user adds to an emptied multi-select
MaxTexts   == 2      \* distinct texts a user types into a time input

T1  == <<"t", "1">>
T10 == <<"t", "1", "0">>
T2  == <<"t", "2">>
T3  == <<"t", "3">>
T30 == <<"t", "3", "0">>
XX  == <<"x">>                 \* a ranking id that no source table has

\* ids in the order their rows come in the source table
IdPool    == <<T10, T2, T1, T3, T30>>
Day(d)    == <<2024, 1, d, 0, 0, 0>>
StampPool == <<Day(25), Day(5), Day(15), Day(10)>>

\* k series of r rows each
SourceTable(k, r) ==
    [n \in 1..(k * r) |->
        [ts_id     |-> IdPool[((n - 1) \div r) + 1],
         timestamp |-> StampPool[((n - 1) % r) + 1]]]

RANKING_PLAIN ==
    [columns |-> <<"ts_id", "score">>,
     rows    |-> <<[ts_id |-> T10, score |-> 5],
                   [ts_id |-> XX, score |-> 9]>>]
RANKING_GEO ==
    [columns |-> <<"ts_id", "latitude", "longitude", "score">>,
     rows    |-> <<[ts_id |-> T10, latitude |-> 49, longitude |-> 10, score |-> 5],
                   [ts_id |-> T1, latitude |-> 48, longitude |-> 12, score |-> 9]>>]

EXCEPTION_ROWS ==
    <<[ts_id |-> T10, timestamp |-> Day(5),  count |-> 2],
      [ts_id |-> T10, timestamp |-> Day(25), count |-> 3],
      [ts_id |-> T1,  timestamp |-> Day(15), count |-> 1]>>

\* what a user types into a time input
TXT_EMPTY == <<>>
TXT_D10   == <<"2", "0", "2", "4", "-", "0", "1", "-", "1", "0">>
TXT_F20   == <<"2", "0", "2", "4", "-", "0", "1", "-", "2", "0">> \o MIDNIGHT
TXT_BAD   == <<"2", "0", "2", "4", "/", "0", "1", "/", "1", "5">>
TextPool  == <<TXT_D10, TXT_BAD, TXT_F20, TXT_EMPTY>>
TimeTexts == {TextPool[i] : i \in 1..Min2(MaxTexts, Len(TextPool))}

-----------------------------------------------------------------------------
(* The state after visualize_timeseries returned (api.py) *)

AllIds == get_all_ts_ids(ts_ids_cache, df)

\* The main page as create_layout / create_main_page_content build it.
MainLayout ==
    /\ selected_ids = initial_value(AllIds, display_count)
    /\ start_input = None /\ end_input = None /\ time_error = None
    /\ graph_fig = None
    /\ sort_order = "desc"
    /\ table_data = IF IsNone(ranking_store) THEN <<>> ELSE Val(ranking_store).rows
    /\ selected_rows = IF IsNone(ranking_store) THEN <<>> ELSE <<0>>
    /\ map_fig = None
\* A page that is not in the layout holds nothing.
MainAbsent ==
    /\ selected_ids = <<>>
    /\ start_input = None /\ end_input = None /\ time_error = None
    /\ graph_fig = None
    /\ sort_order = "desc" /\ table_data = <<>> /\ selected_rows = <<>>
    /\ map_fig = None
ExceptionsAbsent ==
    /\ exc_selector = NoneV
    /\ exc_start = None /\ exc_end = None /\ exc_error = None
    /\ exc_map = None /\ exc_graph = None

NoCall == [fn |-> "none"]

\* visualize_timeseries(df, ranking_df, df_exceptions, display_count) for a
\* df of k series with r rows each
Session(k, r, ranking, exceptions, count) ==
    /\ has_exceptions = exceptions
    /\ df = SourceTable(k, r)
    /\ df_exceptions = IF exceptions THEN EXCEPTION_ROWS ELSE <<>>
    /\ ts_ids_cache = Some(get_all_ts_ids(None, df))
    /\ ranking_store = ranking
    /\ geo_store = IF ~IsNone(ranking) /\ HasGeoColumns(Val(ranking))
                   THEN Some(build_geo_dataframe(Val(ranking))) ELSE None
    /\ display_count = count
    /\ full_time_range = Some(get_full_time_range(df))
    /\ current_offset = 0
    /\ time_range = None
    /\ pathname = "/"
    /\ page = "layout"
    /\ IF exceptions THEN MainAbsent ELSE MainLayout
    /\ ExceptionsAbsent
    /\ advances = 0 /\ left = None /\ scans = 1
    /\ shown = <<initial_value(get_all_ts_ids(None, df), count)>>

\* The calls explored: every table size and page size without a ranking
\* (a single series has a single timestamp), a ranking without and with
\* coordinates, and the two-page application (df_exceptions needs a
\* ranking_df with latitude and longitude).
Sessions ==
    {[k |-> k, r |-> Min2(k, MaxRows), ranking |-> None, exceptions |-> FALSE,
      count |-> count] : k \in 0..MaxSeries, count \in 0..MaxDisplay}
    \cup {[k |-> 2, r |-> MaxRows, ranking |-> Some(RANKING_PLAIN),
           exceptions |-> FALSE, count |-> 1],
          [k |-> 1, r |-> MaxRows, ranking |-> Some(RANKING_GEO),
           exceptions |-> FALSE, count |-> 1],
          [k |-> 1, r |-> MaxRows, ranking |-> Some(RANKING_GEO),
           exceptions |-> TRUE, count |-> 1]}

Init ==
    /\ \E s \in Sessions : Session(s.k, s.r, s.ranking, s.exceptions, s.count)
    /\ call = NoCall /\ ret = None /\ pending = {} /\ ran = <<>>

-----------------------------------------------------------------------------
(* Dispatch: one action per browser event, with the handlers it triggers   *)

\* self.get_all_ts_ids(), called directly or by the two methods that use
\* it: the scan happens on a cache miss, and its result is kept
ScanOrCache ==
    /\ ts_ids_cache' = Some(get_all_ts_ids(ts_ids_cache, df))
    /\ scans' = IF cache_miss(ts_ids_cache) THEN scans + 1 ELSE scans

\* 'ts-selector'.value changed: update_graph and update_map_highlight run
SelectorCascade ==
    /\ graph_fig' = Some(update_graph(df, ListV(selected_ids'), DEFAULT_CONFIG))
    /\ map_fig' = IF IsNone(geo_store) THEN map_fig
                  ELSE Some(update_map_highlight(selected_ids', Val(geo_store)))

\* The initial load of the single-page layout: the handlers registered
\* without prevent_initial_call run once.
Load ==
    /\ page = "layout" /\ ~has_exceptions
    /\ page' = "main"
    /\ selected_ids' = selected_ids
    /\ SelectorCascade
    /\ IF IsNone(ranking_store) THEN table_data' = table_data
       ELSE table_data' \in handle_sort_order_change(sort_order, Val(ranking_store))
    /\ UNCHANGED <<cfgVars, current_offset, time_range, pathname, timeVars,
                   sort_order, selected_rows, excVars, histVars, fnVars, wireVars>>

\* The four outputs of update_time_range, r what it returned and start_in,
\* end_in what the two inputs hold
TimeRangeOutputs(r, start_in, end_in) ==
    /\ time_range' = Write(time_range, r.store)
    /\ time_error' = Write(time_error, r.error)
    /\ start_input' = Write(start_in, r.start)
    /\ end_input' = Write(end_in, r.end)

\* display_page: the initial load of the routed layout, and every change
\* of the URL.  The page is built anew.  A handler registered with
\* prevent_initial_call still runs when its inputs are inserted and one of
\* its outputs is not: handle_next_button (n_clicks = 0) and
\* update_time_range (no trigger) on the main page; handle_sort_order_change
\* is registered without it.
RenderPage(path) ==
    /\ has_exceptions
    /\ page = "layout" \/ path # pathname
    /\ pathname' = path
    /\ page' = display_page(path)
    /\ IF display_page(path) = "main"
       THEN /\ selected_ids' = initial_value(AllIds, display_count)
            /\ sort_order' = "desc"
            /\ selected_rows' = <<0>>
            /\ table_data' \in handle_sort_order_change("desc", Val(ranking_store))
            /\ map_fig' = None
            /\ graph_fig' = None
            /\ \E n \in {handle_next_button(AllIds, 0, current_offset, display_count)} :
                    current_offset' = Write(current_offset, n.offset)
            /\ \E r \in {update_time_range("", None, None, full_time_range)} :
                    TimeRangeOutputs(r, None, None)
            /\ exc_selector' = NoneV
            /\ exc_start' = None /\ exc_end' = None /\ exc_error' = None
            /\ exc_map' = None /\ exc_graph' = None
       ELSE /\ selected_ids' = <<>>
            /\ start_input' = None /\ end_input' = None /\ time_error' = None
            /\ graph_fig' = None
            /\ sort_order' = "desc" /\ table_data' = <<>> /\ selected_rows' = <<>>
            /\ map_fig' = None
            /\ exc_selector' = exception_initial_value(AllIds)
            /\ exc_start' = None /\ exc_end' = None /\ exc_error' = None
            /\ exc_map' = None /\ exc_graph' = None
            /\ UNCHANGED <<current_offset, time_range>>
    /\ UNCHANGED <<cfgVars, fnVars, wireVars>>
DisplayPage(path) == RenderPage(path) /\ UNCHANGED histVars

\* The user follows a link of the navigation bar
Navigate == \E path \in {"/", "/exceptions"} : DisplayPage(path)

\* The same, with what the main page held noted down as the user leaves it
\* for the exceptions page
MainState ==
    [selected_ids |-> selected_ids, current_offset |-> current_offset,
     sort_order |-> sort_order, time_range |-> time_range]
DisplayPageNoting(path) ==
    /\ RenderPage(path)
    /\ left' = IF page = "main" /\ page' = "exceptions" THEN Some(MainState) ELSE None
    /\ UNCHANGED <<advances, scans, shown>>
NavigateNoting == \E path \in {"/", "/exceptions"} : DisplayPageNoting(path)

\* A click on 'Next', the n_clicks-th
NextClickWith(n_clicks) ==
    /\ page = "main"
    /\ \E r \in {handle_next_button(AllIds, n_clicks, current_offset, display_count)} :
        /\ selected_ids' = Write(selected_ids, r.ids)
        /\ current_offset' = Write(current_offset, r.offset)
    /\ ScanOrCache
    /\ SelectorCascade
    /\ advances' = IF current_offset' = 0 THEN 0 ELSE advances + 1
    /\ shown' = IF current_offset' = 0 THEN <<selected_ids'>>
                 ELSE Append(shown, selected_ids')
    /\ UNCHANGED <<has_exceptions, df, df_exceptions, ranking_store, geo_store,
                   display_count, full_time_range, time_range, pathname, page,
                   timeVars, rankVars, excVars, left, fnVars, wireVars>>
NextClick == \E n_clicks \in {1, 2} : NextClickWith(n_clicks)

\* The values the multi-select can take next: one option added, or one id
\* removed
RemoveAt(seq, i) == SubSeq(seq, 1, i - 1) \o SubSeq(seq, i + 1, Len(seq))
DropdownChoices(value, options) ==
    {Append(value, options[i]) :
        i \in {j \in DOMAIN options :
                 /\ Len(value) < MaxPicked
                 /\ \A m \in DOMAIN value : value[m] # options[j]}}
    \cup {RemoveAt(value, i) : i \in DOMAIN value}

\* The user changes the multi-select
SelectorChange ==
    /\ page = "main"
    /\ \E value \in DropdownChoices(selected_ids, AllIds) : selected_ids' = value
    /\ SelectorCascade
    /\ UNCHANGED <<cfgVars, storeVars, timeVars, rankVars, excVars, histVars, fnVars, wireVars>>

\* update_time_range runs for the trigger given, start_in and end_in what
\* the inputs hold; a written 'time-range-store' runs
\* apply_time_range_to_graph
TimeRangeStep(triggered_id, start_in, end_in) ==
    /\ page = "main"
    /\ \E r \in {update_time_range(triggered_id, start_in, end_in, full_time_range)} :
        /\ TimeRangeOutputs(r, start_in, end_in)
        /\ graph_fig' = IF r.store.upd
                        THEN Write(graph_fig, apply_time_range_to_graph(time_range', graph_fig))
                        ELSE graph_fig
    /\ UNCHANGED <<cfgVars, current_offset, pathname, page, selected_ids, map_fig,
                   rankVars, excVars, histVars, fnVars, wireVars>>

\* The user commits a text in the start or the end input
EditStartWith(text) ==
    Some(text) # start_input /\ TimeRangeStep("time-start-input", Some(text), end_input)
EditEndWith(text) ==
    Some(text) # end_input /\ TimeRangeStep("time-end-input", start_input, Some(text))
EditStart == \E text \in TimeTexts : EditStartWith(text)
EditEnd == \E text \in TimeTexts : EditEndWith(text)

\* A click on 'Reset'
ResetClick == TimeRangeStep("time-reset-button", start_input, end_input)

\* A faulty variant of SortToggle: the toggle also selects the series of
\* the first row shown
SortToggle_reselecting ==
    /\ page = "main" /\ ~IsNone(ranking_store)
    /\ \E order \in {"asc", "desc"} :
        /\ order # sort_order
        /\ sort_order' = order
        /\ table_data' \in handle_sort_order_change(order, Val(ranking_store))
    /\ selected_ids' = <<table_data'[1].ts_id>>
    /\ SelectorCascade
    /\ UNCHANGED <<cfgVars, storeVars, timeVars, selected_rows, excVars,
                   histVars, fnVars, wireVars>>

\* A faulty variant of SortToggle: the stored ranking is sorted in place
SortToggle_sorting_store ==
    /\ page = "main" /\ ~IsNone(ranking_store)
    /\ \E order \in {"asc", "desc"} :
        /\ order # sort_order
        /\ sort_order' = order
        /\ table_data' \in handle_sort_order_change(order, Val(ranking_store))
    /\ ranking_store' = Some([Val(ranking_store) EXCEPT !.rows = table_data'])
    /\ UNCHANGED <<has_exceptions, df, df_exceptions, ts_ids_cache, geo_store,
                   display_count, full_time_range, storeVars, selVars, timeVars,
                   selected_rows, excVars, histVars, fnVars, wireVars>>

\* The user picks the other sort order
SortToggle ==
    /\ page = "main" /\ ~IsNone(ranking_store)
    /\ \E order \in {"asc", "desc"} :
        /\ order # sort_order
        /\ sort_order' = order
        /\ table_data' \in handle_sort_order_change(order, Val(ranking_store))
    /\ UNCHANGED <<cfgVars, storeVars, selVars, timeVars, selected_rows, excVars,
                   histVars, fnVars, wireVars>>

\* The user selects a row of the ranking table, or the selection empties:
\* rows is the new 'selected_rows'
RankingClickWith(rows) ==
    /\ page = "main" /\ ~IsNone(ranking_store)
    /\ rows # selected_rows
    /\ selected_rows' = rows
    /\ \E r \in {handle_ranking_selection(rows, table_data)} :
        /\ selected_ids' = Write(selected_ids, r)
        /\ IF r.upd THEN SelectorCascade ELSE UNCHANGED <<graph_fig, map_fig>>
    /\ UNCHANGED <<cfgVars, storeVars, timeVars, sort_order, table_data, excVars,
                   histVars, fnVars, wireVars>>
RowChoices == {<<>>} \cup {<<i - 1>> : i \in DOMAIN table_data}
RankingClick == \E rows \in RowChoices : RankingClickWith(rows)

\* The clickData a map can send: a point of the figure, and the two
\* values the handlers guard against
ClickData(fig) ==
    {None, ClickOf(None)}
    \cup (IF IsNone(fig) THEN {}
          ELSE {ClickOf(Some(Val(fig).customdata[i])) : i \in DOMAIN Val(fig).customdata})

\* A click on the main page's map
MapClickWith(click_data) ==
    /\ page = "main" /\ ~IsNone(geo_store)
    /\ \E r \in {handle_map_click(click_data)} :
        /\ selected_ids' = Write(selected_ids, r)
        /\ IF r.upd THEN SelectorCascade ELSE UNCHANGED <<graph_fig, map_fig>>
    /\ UNCHANGED <<cfgVars, storeVars, timeVars, rankVars, excVars, histVars, fnVars, wireVars>>
MapClick == \E click_data \in ClickData(map_fig) : MapClickWith(click_data)

-----------------------------------------------------------------------------
(* The exceptions page *)

\* One of the inputs of update_exception_map and update_exception_graph
\* changed; the map handler may rewrite the two time inputs (after a zoom),
\* and the graph handler then sees the rewritten values.
ExceptionCascade(triggered_id, start_in, end_in, selected, relayout) ==
    /\ page = "exceptions"
    /\ \E m \in {update_exception_map(triggered_id, start_in, end_in, selected, relayout,
                                      Val(geo_store), full_time_range, df_exceptions)} :
        /\ exc_map' = Write(exc_map, m.map)
        /\ exc_error' = Write(exc_error, m.error)
        /\ exc_start' = Write(start_in, m.start)
        /\ exc_end' = Write(end_in, m.end)
        /\ exc_selector' = selected
        /\ IF triggered_id = "exception-ts-graph" /\ ~m.start.upd
           THEN exc_graph' = exc_graph
           ELSE exc_graph' = Write(exc_graph,
                    update_exception_graph(df, selected, exc_start', exc_end',
                                           full_time_range))
    /\ UNCHANGED <<cfgVars, storeVars, selVars, timeVars, rankVars, histVars, fnVars, wireVars>>

\* The user commits a text in one of the page's time inputs
ExcEditStartWith(text) ==
    /\ Some(text) # exc_start
    /\ ExceptionCascade("exception-time-start", Some(text), exc_end, exc_selector, None)
ExcEditEndWith(text) ==
    /\ Some(text) # exc_end
    /\ ExceptionCascade("exception-time-end", exc_start, Some(text), exc_selector, None)
ExcEditStart == \E text \in TimeTexts : ExcEditStartWith(text)
ExcEditEnd == \E text \in TimeTexts : ExcEditEndWith(text)

\* The user picks an option of the single select, or clears it
ExcSelect ==
    \E value \in {NoneV} \cup {StrV(AllIds[i]) : i \in DOMAIN AllIds} :
        /\ value # exc_selector
        /\ ExceptionCascade("exception-ts-selector", exc_start, exc_end, value, None)

\* A click on the page's map
ExcMapClickWith(click_data) ==
    /\ page = "exceptions"
    /\ \E r \in {exception_map_click_handler(click_data)} :
        IF r.upd
        THEN ExceptionCascade("exception-ts-selector", exc_start, exc_end, r.v, None)
        ELSE UNCHANGED vars
ExcMapClick == \E click_data \in ClickData(exc_map) : ExcMapClickWith(click_data)

\* relayoutData of the page's chart: a zoom to a window, a zoom whose first
\* bound plotly writes without seconds, a pan that reports one end only, and
\* the double click that resets the axis
ZOOM_FROM == <<"2", "0", "2", "4", "-", "0", "1", "-", "0", "1">> \o MIDNIGHT \o <<".", "5">>
ZOOM_TO   == <<"2", "0", "2", "4", "-", "0", "1", "-", "1", "2">> \o MIDNIGHT
ZOOM_MINUTES == <<"2", "0", "2", "4", "-", "0", "1", "-", "0", "5", " ", "1", "2", ":", "3", "0">>
Relayouts ==
    { Some([r0 |-> Some(ZOOM_FROM), r1 |-> Some(ZOOM_TO), autorange |-> FALSE]),
      Some([r0 |-> Some(ZOOM_MINUTES), r1 |-> Some(ZOOM_TO), autorange |-> FALSE]),
      Some([r0 |-> Some(ZOOM_TO), r1 |-> None, autorange |-> FALSE]),
      Some([r0 |-> None, r1 |-> None, autorange |-> TRUE]) }

\* The user zooms, pans or resets the page's chart
ExcZoomWith(relayout) ==
    /\ ~IsNone(exc_graph)
    /\ ExceptionCascade("exception-ts-graph", exc_start, exc_end, exc_selector, relayout)
ExcZoom == \E relayout \in Relayouts : ExcZoomWith(relayout)

-----------------------------------------------------------------------------
(* parse_time_input called on its own *)

MaxPad == 1      \* blanks before and after a text: 0..MaxPad

RECURSIVE Blanks(_)
Blanks(n) == IF n = 0 THEN <<>> ELSE <<" ">> \o Blanks(n - 1)

\* the texts between the blanks: empty, the two formats, fields of one
\* digit, a run of blanks before the time, and texts strptime rejects
TXT_SHORT   == <<"2", "0", "2", "4", "-", "1", "-", "5">>
TXT_SHORT_T == TXT_SHORT \o <<" ", " ", "7", ":", "0", "8", ":", "9">>
TXT_FEB30   == <<"2", "0", "2", "4", "-", "0", "2", "-", "3", "0">>
TXT_ISO     == TXT_D10 \o <<"T", "0", "0", ":", "0", "0", ":", "0", "0">>
TXT_HOUR24  == TXT_D10 \o <<" ", "2", "4", ":", "0", "0", ":", "0", "0">>
ParseCores ==
    {TXT_EMPTY, TXT_D10, TXT_F20, TXT_BAD, TXT_SHORT, TXT_SHORT_T, TXT_FEB30, TXT_ISO,
     TXT_HOUR24}
ParseTexts ==
    {None} \cup {Some(Blanks(l) \o core \o Blanks(r)) :
                    core \in ParseCores, l \in 0..MaxPad, r \in 0..MaxPad}
ParseDefaults == {None, Some(TXT_F20)}

InitParse ==
    /\ Session(0, 0, None, FALSE, 0)
    /\ \E text \in ParseTexts, default \in ParseDefaults :
          call = [fn |-> "parse_time_input", time_str |-> text, default |-> default]
    /\ ret = None /\ pending = {} /\ ran = <<>>

\* the call returns
ParseReturn ==
    /\ call.fn = "parse_time_input" /\ IsNone(ret)
    /\ ret' = Some(parse_time_input(call.time_str, call.default))
    /\ UNCHANGED <<cfgVars, storeVars, selVars, timeVars, rankVars, excVars, histVars, call, wireVars>>

NextParse == ParseReturn

SpecParse == InitParse /\ [][NextParse]_vars

-----------------------------------------------------------------------------
(* TimeseriesDataManager called on its own: the store as constructed, then *)
(* any sequence of its four methods                                        *)

MaxOffset == 4     \* page offsets: -2..MaxOffset
MaxLimit  == 3     \* page limits: 0..MaxLimit

\* a table whose series alternate row by row
MIXED_TABLE ==
    <<[ts_id |-> T2, timestamp |-> Day(25)], [ts_id |-> T10, timestamp |-> Day(5)],
      [ts_id |-> T2, timestamp |-> Day(5)], [ts_id |-> T10, timestamp |-> Day(25)]>>
StoreTables ==
    {SourceTable(k, r) : k \in 0..MaxSeries, r \in 1..MaxRows} \cup {MIXED_TABLE}

\* the id lists asked for: empty, known and unknown ids, in any order
IdLists ==
    {<<>>, <<XX>>, <<T10>>, <<T1, T10>>, <<T10, T1>>, <<XX, T2>>, <<T2, T2>>}

\* exception tables: none, the session's, and one with a zero count and two
\* rows of one series at one instant
ExceptionTables ==
    {<<>>, EXCEPTION_ROWS,
     <<[ts_id |-> T2, timestamp |-> Day(15), count |-> 0],
       [ts_id |-> T1, timestamp |-> Day(5), count |-> 4],
       [ts_id |-> T1, timestamp |-> Day(5), count |-> 1]>>}

\* the bounds aggregation is asked for: omitted, empty, a date, and the
\* instants of the exception rows
AggregateBounds ==
    {None, Some(<<>>), Some(TXT_D10)} \cup {Some(Strftime(Day(d))) : d \in {5, 15, 25}}

\* TimeseriesDataManager.__init__ and ExceptionDataManager.__init__; no
\* application around them
InitStore ==
    /\ df \in StoreTables
    /\ ts_ids_cache = None /\ scans = 0
    /\ has_exceptions = FALSE /\ df_exceptions \in ExceptionTables
    /\ ranking_store = None /\ geo_store = None
    /\ display_count = 0 /\ full_time_range = None
    /\ current_offset = 0 /\ time_range = None
    /\ pathname = "/" /\ page = "layout"
    /\ MainAbsent /\ ExceptionsAbsent
    /\ advances = 0 /\ left = None /\ shown = <<>>
    /\ call = NoCall /\ ret = None /\ pending = {} /\ ran = <<>>

StoreFrame ==
    UNCHANGED <<has_exceptions, df, df_exceptions, ranking_store, geo_store, display_count,
                full_time_range, storeVars, selVars, timeVars, rankVars, excVars,
                advances, left, shown, wireVars>>

CallAllIds ==
    /\ call' = [fn |-> "get_all_ts_ids", cached |-> ~cache_miss(ts_ids_cache)]
    /\ ScanOrCache
    /\ ret' = Some(Val(ts_ids_cache'))
    /\ StoreFrame

CallPage(offset, limit) ==
    /\ call' = [fn |-> "get_paginated_ids", offset |-> offset, limit |-> limit]
    /\ ScanOrCache
    /\ ret' = Some(get_paginated_ids(Val(ts_ids_cache'), offset, limit))
    /\ StoreFrame

CallCount ==
    /\ call' = [fn |-> "get_total_count", cached |-> ~cache_miss(ts_ids_cache)]
    /\ ScanOrCache
    /\ ret' = Some(get_total_count(Val(ts_ids_cache')))
    /\ StoreFrame

CallRowsFor(ids) ==
    /\ call' = [fn |-> "get_ts_data", ts_ids |-> ids]
    /\ ret' = Some(get_ts_data(df, ListV(ids)))
    /\ UNCHANGED <<ts_ids_cache, scans>>
    /\ StoreFrame

CallAggregate(start_time, end_time) ==
    /\ call' = [fn |-> "get_aggregated_exceptions",
                start_time |-> start_time, end_time |-> end_time]
    /\ ret' = Some(get_aggregated_exceptions(df_exceptions, start_time, end_time))
    /\ UNCHANGED <<ts_ids_cache, scans>>
    /\ StoreFrame

NextStore ==
    \/ \E start_time, end_time \in AggregateBounds : CallAggregate(start_time, end_time)
    \/ CallAllIds
    \/ \E offset \in (0 - 2)..MaxOffset, limit \in 0..MaxLimit : CallPage(offset, limit)
    \/ CallCount
    \/ \E ids \in IdLists : CallRowsFor(ids)

SpecStore == InitStore /\ [][NextStore]_vars

-----------------------------------------------------------------------------
(* visualize_timeseries and ColumnConfig.validate called on their own *)

\* the columns a source table comes with
ColumnLists ==
    {<<"timestamp", "ts_id", "actual_value", "forecasted_value">>,
     <<"timestamp", "ts_id", "actual_value", "forecasted_value", "extrema", "temp">>,
     <<"ts_id", "timestamp", "forecasted_value", "temp">>,
     <<"time", "actual_value">>}

\* the bindings: the default names or another timestamp_col, with or without
\* extrema_col and features
Configs ==
    [timestamp : {"timestamp", "time"}, ts_id : {"ts_id"},
     actual : {"actual_value"}, forecast : {"forecasted_value"},
     extrema : {None, Some("extrema")},
     features : {None, Some(<<>>), Some(<<"temp">>), Some(<<"wind", "temp", "rain">>)}]

\* a ranking with a latitude but no longitude
RANKING_LATITUDE ==
    [columns |-> <<"ts_id", "latitude", "score">>,
     rows    |-> <<[ts_id |-> T10, latitude |-> 49, score |-> 5]>>]

LaunchArgs ==
    [config : Configs, columns : ColumnLists,
     ranking_df : {None, Some(RANKING_PLAIN), Some(RANKING_LATITUDE), Some(RANKING_GEO)},
     df_exceptions : BOOLEAN,
     exception_count_col : {None, Some("count")}]

\* nothing is constructed yet; the call to make is chosen
InitLaunch ==
    /\ call \in [fn : {"validate", "visualize_timeseries"}, args : LaunchArgs]
    /\ ret = None /\ pending = {} /\ ran = <<>>
    /\ df = <<>> /\ ts_ids_cache = None /\ scans = 0
    /\ has_exceptions = FALSE /\ df_exceptions = <<>>
    /\ ranking_store = None /\ geo_store = None
    /\ display_count = 0 /\ full_time_range = None
    /\ current_offset = 0 /\ time_range = None
    /\ pathname = "/" /\ page = "layout"
    /\ MainAbsent /\ ExceptionsAbsent
    /\ advances = 0 /\ left = None /\ shown = <<>>

CallValidate ==
    /\ call.fn = "validate" /\ IsNone(ret)
    /\ ret' = Some(validate(call.args.config, call.args.columns))
    /\ UNCHANGED <<cfgVars, storeVars, selVars, timeVars, rankVars, excVars, histVars, call, wireVars>>

CallVisualize ==
    /\ call.fn = "visualize_timeseries" /\ IsNone(ret)
    /\ ret' = Some(visualize_timeseries(call.args))
    /\ UNCHANGED <<cfgVars, storeVars, selVars, timeVars, rankVars, excVars, histVars, call, wireVars>>

NextLaunch == CallValidate \/ CallVisualize

SpecLaunch == InitLaunch /\ [][NextLaunch]_vars

-----------------------------------------------------------------------------
(* create_figure and the two chart handlers called on their own *)

\* source tables with an extrema column: two series row by row, one of them
\* without a value in the column; no rows; one series with two values
ChartTables ==
    {<<[ts_id |-> T2, timestamp |-> Day(25), extrema |-> None],
       [ts_id |-> T10, timestamp |-> Day(5), extrema |-> Some(7)],
       [ts_id |-> T2, timestamp |-> Day(5), extrema |-> None],
       [ts_id |-> T10, timestamp |-> Day(25), extrema |-> None]>>,
     <<>>,
     <<[ts_id |-> T1, timestamp |-> Day(15), extrema |-> Some(1)],
       [ts_id |-> T1, timestamp |-> Day(5), extrema |-> Some(3)]>>}

ChartConfigs ==
    {[DEFAULT_CONFIG EXCEPT !.extrema = e, !.features = f] :
        e \in {None, Some("extrema")},
        f \in {None, Some(<<>>), Some(<<"temp">>), Some(<<"temp", "wind">>)}}

\* 'ts-selector'.value: absent, empty, ids of the table and ids it lacks
ChartSelections ==
    {NoneV, ListV(<<>>), ListV(<<XX>>), ListV(<<T10>>), ListV(<<T2, T10>>), ListV(<<XX, T1>>)}

\* 'features-toggle'.value
FeatureToggles == {NoneV, ListV(<<>>), ListV(<< <<"show">> >>)}

InitChart ==
    /\ df \in ChartTables
    /\ call = NoCall /\ ret = None /\ pending = {} /\ ran = <<>>
    /\ ts_ids_cache = None /\ scans = 0
    /\ has_exceptions = FALSE /\ df_exceptions = <<>>
    /\ ranking_store = None /\ geo_store = None
    /\ display_count = 0 /\ full_time_range = None
    /\ current_offset = 0 /\ time_range = None
    /\ pathname = "/" /\ page = "layout"
    /\ MainAbsent /\ ExceptionsAbsent
    /\ advances = 0 /\ left = None /\ shown = <<>>

CallCreateFigure(config) ==
    /\ call' = [fn |-> "create_figure", config |-> config]
    /\ ret' = Some(create_figure(df, config))
    /\ UNCHANGED <<cfgVars, storeVars, selVars, timeVars, rankVars, excVars, histVars, wireVars>>

\* registered when no features are configured
CallUpdateGraph(selected, config) ==
    /\ ~has_features(config)
    /\ call' = [fn |-> "update_graph", config |-> config, selected |-> selected]
    /\ ret' = Some(update_graph(df, selected, config))
    /\ UNCHANGED <<cfgVars, storeVars, selVars, timeVars, rankVars, excVars, histVars, wireVars>>

\* registered when features are configured
CallUpdateGraphWithFeatures(selected, features_toggle, config) ==
    /\ has_features(config)
    /\ call' = [fn |-> "update_graph_with_features", config |-> config,
                selected |-> selected, features_toggle |-> features_toggle]
    /\ ret' = Some(update_graph_with_features(df, selected, features_toggle, config))
    /\ UNCHANGED <<cfgVars, storeVars, selVars, timeVars, rankVars, excVars, histVars, wireVars>>

NextChart ==
    \/ \E config \in ChartConfigs : CallCreateFigure(config)
    \/ \E selected \in ChartSelections, config \in ChartConfigs :
            CallUpdateGraph(selected, config)
    \/ \E selected \in ChartSelections, features_toggle \in FeatureToggles,
           config \in ChartConfigs :
            CallUpdateGraphWithFeatures(selected, features_toggle, config)

SpecChart == InitChart /\ [][NextChart]_vars

-----------------------------------------------------------------------------
(* _minmax_scale and create_map_figure called on their own *)

MaxFeatureRows == 3      \* rows of a table with feature columns: 0..MaxFeatureRows
MaxGeoRows     == 2      \* rows of a geo_df: 0..MaxGeoRows

\* tables with two feature columns, of whole numbers
FeatureTables ==
    UNION {[1..n -> [temp : (0 - 1)..2, wind : 0..1]] : n \in 0..MaxFeatureRows}

\* the columns to scale
FeatureLists == {<<>>, <<"temp">>, <<"wind">>, <<"wind", "temp">>}

\* geo_df: points in whole degrees, north and south of the equator
GeoTables ==
    UNION {{[i \in 1..n |-> [ts_id |-> IdPool[i], latitude |-> p[i].lat,
                             longitude |-> p[i].lon]] :
               p \in [1..n -> [lat : {0 - 10, 40, 50}, lon : {5, 15}]]} :
           n \in 0..MaxGeoRows}

ScaleCalls ==
    [fn : {"minmax_scale"}, df : FeatureTables, columns : FeatureLists]
    \cup [fn : {"create_map_figure"}, geo_df : GeoTables,
          selected_ts_ids : {NoneV, ListV(<<T10>>)}]

InitScale ==
    /\ call \in ScaleCalls
    /\ ret = None /\ pending = {} /\ ran = <<>>
    /\ df = <<>> /\ ts_ids_cache = None /\ scans = 0
    /\ has_exceptions = FALSE /\ df_exceptions = <<>>
    /\ ranking_store = None /\ geo_store = None
    /\ display_count = 0 /\ full_time_range = None
    /\ current_offset = 0 /\ time_range = None
    /\ pathname = "/" /\ page = "layout"
    /\ MainAbsent /\ ExceptionsAbsent
    /\ advances = 0 /\ left = None /\ shown = <<>>

CallMinMaxScale ==
    /\ call.fn = "minmax_scale" /\ IsNone(ret)
    /\ ret' = Some(minmax_scale(call.df, call.columns))
    /\ UNCHANGED <<cfgVars, storeVars, selVars, timeVars, rankVars, excVars, histVars, call, wireVars>>

CallCreateMapFigure ==
    /\ call.fn = "create_map_figure" /\ IsNone(ret)
    /\ ret' = Some(create_map_figure(call.geo_df, call.selected_ts_ids))
    /\ UNCHANGED <<cfgVars, storeVars, selVars, timeVars, rankVars, excVars, histVars, call, wireVars>>

NextScale == CallMinMaxScale \/ CallCreateMapFigure

SpecScale == InitScale /\ [][NextScale]_vars

-----------------------------------------------------------------------------
(* The two-page application, the main page's events and the navigation *)

InitRoute ==
    /\ Session(1, MaxRows, Some(RANKING_GEO), TRUE, 1)
    /\ call = NoCall /\ ret = None /\ pending = {} /\ ran = <<>>

NextRoute ==
    \/ NavigateNoting
    \/ NextClick
    \/ SelectorChange
    \/ EditStart
    \/ EditEnd
    \/ ResetClick
    \/ SortToggle
    \/ RankingClick
    \/ MapClick

SpecRoute == InitRoute /\ [][NextRoute]_vars

(* The two-page application, the exceptions page's events and the        *)
(* navigation                                                            *)
NextExceptions ==
    \/ Navigate
    \/ ExcEditStart
    \/ ExcEditEnd
    \/ ExcSelect
    \/ ExcMapClick
    \/ ExcZoom

SpecExceptions == InitRoute /\ [][NextExceptions]_vars

(* The two-page application over two series shown one at a time, so that *)
(* 'Next' moves the cursor                                               *)
InitPaged ==
    /\ Session(2, 1, Some(RANKING_GEO), TRUE, 1)
    /\ call = NoCall /\ ret = None /\ pending = {} /\ ran = <<>>

SpecPaged == InitPaged /\ [][NextRoute]_vars

(* The single-page application under a user who keeps clicking 'Next', *)
(* and may edit the selection in between                               *)
MaxCycleSeries  == 5      \* series in the source table: 0..MaxCycleSeries
MaxCycleDisplay == 3      \* display_count: 0..MaxCycleDisplay

InitAdvance ==
    /\ \E k \in 0..Min2(MaxCycleSeries, Len(IdPool)), count \in 0..MaxCycleDisplay :
          Session(k, 1, None, FALSE, count)
    /\ call = NoCall /\ ret = None /\ pending = {} /\ ran = <<>>

NextAdvance == Load \/ NextClick \/ SelectorChange

\* the user keeps clicking 'Next': the button is there whenever the page is
SpecAdvance == InitAdvance /\ [][NextAdvance]_vars /\ WF_vars(NextClick)

-----------------------------------------------------------------------------
-----------------------------------------------------------------------------
(* The wiring: what the @app.callback decorators declare, and how Dash     *)
(* dispatches one browser event over it                                    *)

\* the components of the page that display_page builds, and those of the
\* layout around it
MAIN_PAGE ==
    {"ts-selector", "next-button", "features-toggle", "time-start-input",
     "time-end-input", "time-reset-button", "time-range-error", "timeseries-graph",
     "ranking-sort-order", "ranking-table", "map-graph"}
EXCEPTION_PAGE ==
    {"exception-ts-selector", "exception-time-start", "exception-time-end",
     "exception-time-error", "exception-map", "exception-ts-graph"}

\* one @app.callback: Output(...), Input(...), prevent_initial_call
Callback(name, outputs, inputs, prevent_initial_call) ==
    [name |-> name, outputs |-> outputs, inputs |-> inputs,
     prevent_initial_call |-> prevent_initial_call]

\* register_callbacks(app, data_manager, display_count, ranking_df, geo_df)
register_callbacks(has_feats, ranking_given, geo_given) ==
    (IF has_feats
     THEN {Callback("update_graph_with_features",
                    {<<"timeseries-graph", "figure">>},
                    {<<"ts-selector", "value">>, <<"features-toggle", "value">>},
                    FALSE)}
     ELSE {Callback("update_graph",
                    {<<"timeseries-graph", "figure">>},
                    {<<"ts-selector", "value">>},
                    FALSE)})
    \cup
    {Callback("handle_next_button",
              {<<"ts-selector", "value">>, <<"current-offset", "data">>},
              {<<"next-button", "n_clicks">>},
              TRUE),
     Callback("update_time_range",
              {<<"time-range-store", "data">>, <<"time-range-error", "children">>,
               <<"time-start-input", "value">>, <<"time-end-input", "value">>},
              {<<"time-start-input", "value">>, <<"time-end-input", "value">>,
               <<"time-reset-button", "n_clicks">>},
              TRUE),
     Callback("apply_time_range_to_graph",
              {<<"timeseries-graph", "figure">>},
              {<<"time-range-store", "data">>},
              TRUE)}
    \cup
    (IF ranking_given
     THEN {Callback("handle_sort_order_change",
                    {<<"ranking-table", "data">>},
                    {<<"ranking-sort-order", "value">>},
                    FALSE),
           Callback("handle_ranking_selection",
                    {<<"ts-selector", "value">>},
                    {<<"ranking-table", "selected_rows">>},
                    TRUE)}
     ELSE {})
    \cup
    (IF geo_given
     THEN {Callback("update_map_highlight",
                    {<<"map-graph", "figure">>},
                    {<<"ts-selector", "value">>},
                    FALSE),
           Callback("handle_map_click",
                    {<<"ts-selector", "value">>},
                    {<<"map-graph", "clickData">>},
                    TRUE)}
     ELSE {})

\* the main-page part of register_routing_callbacks
routing_main_callbacks(has_feats, ranking_given, geo_given) ==
    (IF has_feats
     THEN {Callback("update_graph_with_features",
                    {<<"timeseries-graph", "figure">>},
                    {<<"ts-selector", "value">>, <<"features-toggle", "value">>},
                    TRUE)}
     ELSE {Callback("update_graph",
                    {<<"timeseries-graph", "figure">>},
                    {<<"ts-selector", "value">>},
                    TRUE)})
    \cup
    {Callback("handle_next_button",
              {<<"ts-selector", "value">>, <<"current-offset", "data">>},
              {<<"next-button", "n_clicks">>},
              TRUE),
     Callback("update_time_range",
              {<<"time-range-store", "data">>, <<"time-range-error", "children">>,
               <<"time-start-input", "value">>, <<"time-end-input", "value">>},
              {<<"time-start-input", "value">>, <<"time-end-input", "value">>,
               <<"time-reset-button", "n_clicks">>},
              TRUE),
     Callback("apply_time_range_to_graph",
              {<<"timeseries-graph", "figure">>},
              {<<"time-range-store", "data">>},
              TRUE)}
    \cup
    (IF ranking_given
     THEN {Callback("handle_sort_order_change",
                    {<<"ranking-table", "data">>},
                    {<<"ranking-sort-order", "value">>},
                    FALSE),
           Callback("handle_ranking_selection",
                    {<<"ts-selector", "value">>},
                    {<<"ranking-table", "selected_rows">>},
                    TRUE)}
     ELSE {})
    \cup
    (IF geo_given
     THEN {Callback("update_map_highlight",
                    {<<"map-graph", "figure">>},
                    {<<"ts-selector", "value">>},
                    TRUE),
           Callback("handle_map_click",
                    {<<"ts-selector", "value">>},
                    {<<"map-graph", "clickData">>},
                    TRUE)}
     ELSE {})

\* the exceptions-page part of register_routing_callbacks
routing_exception_callbacks ==
    {Callback("update_exception_map",
              {<<"exception-map", "figure">>, <<"exception-time-error", "children">>,
               <<"exception-time-start", "value">>, <<"exception-time-end", "value">>},
              {<<"exception-time-start", "value">>, <<"exception-time-end", "value">>,
               <<"exception-ts-selector", "value">>,
               <<"exception-ts-graph", "relayoutData">>},
              TRUE),
     Callback("update_exception_graph",
              {<<"exception-ts-graph", "figure">>},
              {<<"exception-ts-selector", "value">>, <<"exception-time-start", "value">>,
               <<"exception-time-end", "value">>},
              TRUE),
     Callback("exception_map_click_handler",
              {<<"exception-ts-selector", "value">>},
              {<<"exception-map", "clickData">>},
              TRUE)}

\* register_routing_callbacks(app, data_manager, exception_manager, ...)
register_routing_callbacks(has_feats, ranking_given, geo_given) ==
    {Callback("display_page",
              {<<"page-content", "children">>},
              {<<"url", "pathname">>},
              FALSE)}
    \cup routing_main_callbacks(has_feats, ranking_given, geo_given)
    \cup routing_exception_callbacks

\* the callbacks an application registers: api.py registers the routed set
\* when df_exceptions is given, the single-page set otherwise
Registered(c) ==
    IF c.fn = "register_routing_callbacks"
    THEN register_routing_callbacks(c.has_features, c.ranking_df, c.geo_df)
    ELSE register_callbacks(c.has_features, c.ranking_df, c.geo_df)

Registrations ==
    [fn : {"register_callbacks", "register_routing_callbacks"},
     has_features : BOOLEAN, ranking_df : BOOLEAN, geo_df : BOOLEAN]

\* Dash: a property that was written triggers every callback that has it
\* as an Input, except the callback that wrote it
TriggeredOwnOutputToo(callbacks, writer, written) ==
    {g.name : g \in {c \in callbacks : c.inputs \cap written # {}}}
Triggered(callbacks, writer, written) ==
    {g.name : g \in {c \in callbacks : c.inputs \cap written # {} /\ c.name # writer}}

\* Dash: components inserted by a callback trigger the callbacks whose
\* inputs they all are, unless prevent_initial_call is set and the outputs
\* are inserted alongside
InitialCalls(callbacks, inserted) ==
    {g.name : g \in {c \in callbacks :
        /\ \A i \in c.inputs : i[1] \in inserted
        /\ ~c.prevent_initial_call \/ \E o \in c.outputs : o[1] \notin inserted}}

\* Dash: on the first load, the callbacks without prevent_initial_call run
FirstCalls(callbacks, laid_out) ==
    {g.name : g \in {c \in callbacks :
        /\ \A i \in c.inputs : i[1] \in laid_out
        /\ ~c.prevent_initial_call}}

\* the callback of a name
CallbackNamed(callbacks, name) == CHOOSE c \in callbacks : c.name = name

\* Dash: a pending callback waits for the pending callbacks that write one
\* of its inputs
Ready(callbacks, waiting, name) ==
    \A other \in waiting \ {name} :
        CallbackNamed(callbacks, other).outputs
            \cap CallbackNamed(callbacks, name).inputs = {}

\* what an event can change: any Input (the stores too, which only the
\* callbacks write)
UserInputs(callbacks) == UNION {c.inputs : c \in callbacks}

\* the most invocations one event is followed through
MaxInvocations == 12

InitWiring ==
    /\ call \in Registrations
    /\ ret = None /\ pending = {} /\ ran = <<>>
    /\ df = <<>> /\ ts_ids_cache = None /\ scans = 0
    /\ has_exceptions = FALSE /\ df_exceptions = <<>>
    /\ ranking_store = None /\ geo_store = None
    /\ display_count = 0 /\ full_time_range = None
    /\ current_offset = 0 /\ time_range = None
    /\ pathname = "/" /\ page = "layout"
    /\ MainAbsent /\ ExceptionsAbsent
    /\ advances = 0 /\ left = None /\ shown = <<>>

\* the browser loads the application
FirstLoad ==
    /\ pending = {} /\ page = "layout"
    /\ page' = "main"
    /\ pending' = FirstCalls(Registered(call),
                             IF call.fn = "register_routing_callbacks"
                             THEN {"url", "page-content"}
                             ELSE MAIN_PAGE)
    /\ ran' = <<>>
    /\ UNCHANGED <<cfgVars, current_offset, time_range, pathname, selVars, timeVars,
                   rankVars, excVars, histVars, fnVars>>

\* the user changes one property while nothing is pending
BrowserEvent(prop) ==
    /\ pending = {} /\ page # "layout"
    /\ pending' = Triggered(Registered(call), "", {prop})
    /\ ran' = <<>>
    /\ UNCHANGED <<cfgVars, storeVars, selVars, timeVars, rankVars, excVars, histVars,
                   fnVars>>

\* one pending callback that is ready runs, and writes some of its outputs
\* (the others are no_update); display_page inserts one of the two pages
Invoke(name, written, inserted) ==
    /\ name \in pending /\ Ready(Registered(call), pending, name)
    /\ Len(ran) < MaxInvocations
    /\ written \subseteq CallbackNamed(Registered(call), name).outputs
    /\ pending' = (pending \ {name})
                      \cup Triggered(Registered(call), name, written)
                      \cup (IF <<"page-content", "children">> \in written
                            THEN InitialCalls(Registered(call), inserted)
                            ELSE {})
    /\ ran' = Append(ran, name)
    /\ UNCHANGED <<cfgVars, storeVars, selVars, timeVars, rankVars, excVars, histVars,
                   fnVars>>

UserEvent == \E prop \in UserInputs(Registered(call)) : BrowserEvent(prop)

Dispatch ==
    \E name \in pending, inserted \in {MAIN_PAGE, EXCEPTION_PAGE} :
        \E written \in SUBSET CallbackNamed(Registered(call), name).outputs :
            Invoke(name, written, inserted)

NextWiring == FirstLoad \/ UserEvent \/ Dispatch

\* the dispatcher runs a ready callback as long as there is one
SpecWiring == InitWiring /\ [][NextWiring]_vars /\ WF_vars(Dispatch)

Next ==
    \/ Load
    \/ Navigate
    \/ NextClick
    \/ SelectorChange
    \/ EditStart
    \/ EditEnd
    \/ ResetClick
    \/ SortToggle
    \/ RankingClick
    \/ MapClick
    \/ ExcEditStart
    \/ ExcEditEnd
    \/ ExcSelect
    \/ ExcMapClick
    \/ ExcZoom

Spec == Init /\ [][Next]_vars

-----------------------------------------------------------------------------
(* Properties.  The vocabulary of the specification: N, page(offset, n),   *)
(* the bound an input stands for, a rejected pair of inputs.               *)

N == Len(AllIds)

\* page(offset, n): the at most n ids of the sorted universe from offset on
PageOf(offset, n) ==
    [i \in 1..Max2(0, Min2(n, N - offset)) |-> AllIds[offset + i]]

Ceil(a, b) == (a + b - 1) \div b

IdSet(ids) == {ids[i] : i \in DOMAIN ids}

\* C1: an Advance-page event with display_count >= 1 moves page_offset to
\* offset + display_count when that is below N and to 0 otherwise, and makes
\* selected_ids exactly page(new offset, display_count): the old selection
\* is replaced, not merged.
C1_AdvancePage ==
    [][\A n_clicks \in {1, 2} :
          (NextClickWith(n_clicks) /\ display_count >= 1) =>
              LET new == IF current_offset + display_count < N
                         THEN current_offset + display_count ELSE 0
              IN  /\ current_offset' = new
                  /\ selected_ids' = PageOf(new, display_count)]_vars

\* an advance was made past the first page, and the page reached is all
\* the selection holds
C1_Witness ==
    /\ page = "main" /\ display_count >= 1
    /\ advances >= 1 /\ current_offset = advances * display_count
    /\ selected_ids = PageOf(current_offset, display_count)
    /\ selected_ids # <<>>

\* C2: pagination is cyclic.  From page_offset 0, with N >= 1 ids and
\* display_count >= 1, the ceil(N / display_count)-th consecutive advance,
\* and no earlier one, brings page_offset back to 0, and selected_ids is
\* then page(0, display_count).  advances counts the advances made since
\* page_offset was 0.
C2_CyclicPagination ==
    [][(NextClick /\ N >= 1 /\ display_count >= 1) =>
          IF advances + 1 = Ceil(N, display_count)
          THEN current_offset' = 0 /\ selected_ids' = PageOf(0, display_count)
          ELSE advances + 1 < Ceil(N, display_count) /\ current_offset' # 0]_vars

\* three ids, two to a page: one advance made, the selection is the third
\* id only, and the next advance is the one that wraps
C2_Witness ==
    /\ N = 3 /\ display_count = 2
    /\ advances = 1 /\ advances + 1 = Ceil(N, display_count)
    /\ current_offset = 2
    /\ selected_ids = <<AllIds[3]>>

\* C3: in every reachable state 0 <= page_offset <= N.
C3_OffsetInRange == 0 <= current_offset /\ current_offset <= N

\* the offset of the last, partial page
C3_Witness ==
    /\ advances >= 1 /\ current_offset > 0
    /\ current_offset + display_count > N
    /\ current_offset < N

\* C4: in every reachable state selected_ids is a subset of the ids of the
\* source table, also when the ranking table carries ids the source table
\* does not have.
C4_SelectedWithinUniverse == IdSet(selected_ids) \subseteq IdSet(AllIds)

\* the text of a bound as a datetime
BoundOf(text) == parse_time_string(Val(text))

\* C5: in every reachable state, a stored time_range that has both a start
\* and an end bound has start < end, strictly.
C5_TimeRangeOrdered ==
    (/\ ~IsNone(time_range)
     /\ TruthyText(Val(time_range).start) /\ TruthyText(Val(time_range).end))
    => /\ ~IsNone(BoundOf(Val(time_range).start))
       /\ ~IsNone(BoundOf(Val(time_range).end))
       /\ DtLess(Val(BoundOf(Val(time_range).start)), Val(BoundOf(Val(time_range).end)))

\* a range is stored, and the inputs now hold a pair that was turned down
\* for its order
C5_Witness ==
    /\ ~IsNone(time_range)
    /\ TruthyText(Val(time_range).start) /\ TruthyText(Val(time_range).end)
    /\ time_error = Some(ORDER_ERROR)

\* What an input stands for: malformed when it is not blank and neither
\* format accepts it; else the datetime of its text, or of the default
\* when it is blank.
IsBlank(input) == IsNone(input) \/ Strip(Val(input)) = <<>>
Malformed(input) == ~IsBlank(input) /\ IsNone(parse_time_string(Strip(Val(input))))
BoundStoodFor(input, default) ==
    IF IsBlank(input)
    THEN (IF TruthyText(default) THEN BoundOf(default) ELSE None)
    ELSE parse_time_string(Strip(Val(input)))
DefaultStart == IF IsNone(full_time_range) THEN None ELSE Val(full_time_range).min
DefaultEnd   == IF IsNone(full_time_range) THEN None ELSE Val(full_time_range).max
Rejected(start_in, end_in) ==
    \/ Malformed(start_in)
    \/ Malformed(end_in)
    \/ /\ ~IsNone(BoundStoodFor(start_in, DefaultStart))
       /\ ~IsNone(BoundStoodFor(end_in, DefaultEnd))
       /\ DtLeq(Val(BoundStoodFor(end_in, DefaultEnd)),
                Val(BoundStoodFor(start_in, DefaultStart)))
RejectionMessages(start_in, end_in) ==
    IF Malformed(start_in) \/ Malformed(end_in)
    THEN {Some(InvalidFormat(Strip(Val(x)))) : x \in {y \in {start_in, end_in} : Malformed(y)}}
    ELSE {Some(ORDER_ERROR)}

\* C6: a rejected time-range input of the main page (a malformed text on
\* either side, or both sides parse and start >= end, equality included)
\* leaves the stored time_range and what the two inputs hold as they were;
\* only the error message changes, to the format error or to the ordering
\* error.
C6_RejectedInputAborts ==
    [][\A text \in TimeTexts :
          /\ (EditStartWith(text) /\ Rejected(Some(text), end_input)) =>
                /\ time_range' = time_range
                /\ start_input' = Some(text) /\ end_input' = end_input
                /\ time_error' \in RejectionMessages(Some(text), end_input)
          /\ (EditEndWith(text) /\ Rejected(start_input, Some(text))) =>
                /\ time_range' = time_range
                /\ start_input' = start_input /\ end_input' = Some(text)
                /\ time_error' \in RejectionMessages(start_input, Some(text))]_vars

\* the inputs hold the same date on both sides, the ordering error shows,
\* and the range stored is still the one accepted before
C6_Witness ==
    /\ start_input = Some(TXT_D10) /\ end_input = Some(TXT_D10)
    /\ time_error = Some(ORDER_ERROR)
    /\ ~IsNone(time_range)
    /\ Val(time_range).start # Val(time_range).end

\* the text passed in, empty for None
TextOf(input) == IF IsNone(input) THEN <<>> ELSE Val(input)

\* The result the cases of parse_time_input name, message the text to embed
ParseCases(time_str, default, message) ==
    IF IsBlank(time_str) THEN <<default, None>>
    ELSE IF ~IsNone(StrptimeFull(Strip(Val(time_str))))
    THEN <<Some(Strip(Val(time_str))), None>>
    ELSE IF ~IsNone(StrptimeDate(Strip(Val(time_str))))
    THEN <<Some(Strip(Val(time_str)) \o MIDNIGHT), None>>
    ELSE <<None, Some(InvalidFormat(message))>>

\* C7, as stated: the message of the last case embeds the text that was
\* passed in.
C7_MessageEmbedsText ==
    ~IsNone(ret) => Val(ret) = ParseCases(call.time_str, call.default, TextOf(call.time_str))

\* C7: parse_time_input(text, default) returns (default, no error) for a
\* text that is None, empty or blank; (stripped text, no error) when
\* strptime accepts the stripped text as '%Y-%m-%d %H:%M:%S'; (stripped
\* text + ' 00:00:00', no error) when it accepts it as '%Y-%m-%d'; and
\* otherwise (no value, the format error), the error embedding the stripped
\* text.
C7_ParseTimeInput ==
    ~IsNone(ret) =>
        Val(ret) = ParseCases(call.time_str, call.default, Strip(TextOf(call.time_str)))

\* a malformed text between blanks was refused, the message without the
\* blanks
C7_Witness ==
    /\ call.fn = "parse_time_input"
    /\ call.time_str = Some(<<" ">> \o TXT_BAD \o <<" ">>)
    /\ ret = Some(<<None, Some(InvalidFormat(TXT_BAD))>>)

\* C8: from any state of the main page a Reset click sets time_range to
\* None, clears the error message and both inputs, and puts the x axis of
\* the chart on auto-range.
C8_ResetUnconditional ==
    [][ResetClick =>
          /\ time_range' = None
          /\ time_error' = Some(<<>>)
          /\ start_input' = Some(<<>>) /\ end_input' = Some(<<>>)
          /\ ~IsNone(graph_fig) =>
                /\ ~IsNone(graph_fig')
                /\ Val(graph_fig').autorange = Some(TRUE)]_vars

\* a chart that had been given a typed range, after the reset
C8_Witness ==
    /\ page = "main"
    /\ time_range = None /\ time_error = Some(<<>>)
    /\ start_input = Some(<<>>) /\ end_input = Some(<<>>)
    /\ ~IsNone(graph_fig)
    /\ Val(graph_fig).autorange = Some(TRUE)
    /\ ~IsNone(Val(graph_fig).xrange)
    /\ Some(TXT_D10 \o MIDNIGHT) \in IdSet(Val(Val(graph_fig).xrange))

\* the table shows the rows in the order sort_order asks for
DisplayedInOrder ==
    \A i \in 1..(Len(table_data) - 1) :
        LET col == ranking_col(Val(ranking_store).columns)
        IN  IF sort_order = "desc"
            THEN table_data[i][col] >= table_data[i + 1][col]
            ELSE table_data[i][col] <= table_data[i + 1][col]

\* C9: a click on row i of the ranking table sets selected_ids to the one
\* id shown at row i of the table as displayed, that is in the current sort
\* order, whatever was selected before; an empty row selection changes
\* nothing else.
C9_RankingRowClick ==
    [][\A rows \in RowChoices :
          RankingClickWith(rows) =>
              IF rows = <<>>
              THEN UNCHANGED <<cfgVars, storeVars, selVars, timeVars, sort_order,
                               table_data, excVars>>
              ELSE /\ DisplayedInOrder
                   /\ selected_ids' = <<table_data[rows[1] + 1].ts_id>>]_vars

\* the first row is selected and its id is the selection; the table is
\* sorted descending, which is not the order the ranking was given in, and
\* the id is one only the table can have supplied
C9_Witness ==
    /\ page = "main" /\ ~IsNone(ranking_store) /\ IsNone(geo_store)
    /\ sort_order = "desc"
    /\ selected_rows = <<0>>
    /\ selected_ids = <<table_data[1].ts_id>>
    /\ table_data[1].ts_id # Val(ranking_store).rows[1].ts_id
    /\ table_data[1].ts_id \notin IdSet(AllIds)

\* C10: a map click on a point that carries an id sets selected_ids to that
\* one id; a click event without data, or on a point without an id, leaves
\* selected_ids, page_offset, time_range and the error message unchanged.
\* The same on the exceptions page, for its map and its selector.
C10_MapClick ==
    [][/\ \A click_data \in ClickData(map_fig) :
            MapClickWith(click_data) =>
                IF ~IsNone(click_data) /\ ~IsNone(Val(click_data).customdata)
                THEN selected_ids' = <<Val(Val(click_data).customdata)>>
                ELSE UNCHANGED <<selected_ids, current_offset, time_range, time_error>>
       /\ \A click_data \in ClickData(exc_map) :
            ExcMapClickWith(click_data) =>
                IF ~IsNone(click_data) /\ ~IsNone(Val(click_data).customdata)
                THEN exc_selector' = ListV(<<Val(Val(click_data).customdata)>>)
                ELSE UNCHANGED <<exc_selector, selected_ids, current_offset, time_range,
                                 time_error, exc_error>>]_vars

\* the point of T1 was clicked on the main page's map: T1 alone is
\* selected and highlighted, the ranking table still on its first row
C10_Witness ==
    /\ page = "main" /\ ~IsNone(geo_store) /\ ~IsNone(map_fig)
    /\ selected_ids = <<T1>>
    /\ selected_rows = <<0>> /\ sort_order = "desc"
    /\ table_data[1].ts_id # T1
    /\ \E i \in DOMAIN Val(map_fig).customdata :
          Val(map_fig).customdata[i] = T1 /\ Val(map_fig).size[i] = SIZE_SELECTED

\* C11: a sort-order toggle changes only the order of the rows the ranking
\* table shows (and the toggle itself): selected_ids, page_offset,
\* time_range and the stored ranking data are as before, and so is every
\* other component.
C11_SortToggleFrame ==
    [][SortToggle =>
          /\ UNCHANGED <<selected_ids, current_offset, time_range, ranking_store>>
          /\ UNCHANGED <<cfgVars, storeVars, selVars, timeVars, selected_rows, excVars>>
          /\ IsPermutation(Val(ranking_store).rows, table_data')
          /\ table_data' # table_data]_vars

\* the table was put in ascending order after a row had been clicked: the
\* selection is still the clicked id, which the first row no longer shows
C11_Witness ==
    /\ page = "main" /\ ~IsNone(ranking_store) /\ IsNone(geo_store)
    /\ sort_order = "asc"
    /\ selected_rows = <<0>>
    /\ selected_ids = <<XX>>
    /\ table_data[1].ts_id # XX

\* the row the ranking table marks as selected shows a series of
\* selected_ids
SelectedRowInSelection ==
    (page = "main" /\ ~IsNone(ranking_store) /\ selected_rows # <<>>)
    => table_data[selected_rows[1] + 1].ts_id \in IdSet(selected_ids)

\* C12: after every main-page event (advance, dropdown change, ranking
\* click, map click, sort toggle) the row marked as selected in the ranking
\* table shows a series that is in selected_ids.
C12_SelectionConsistent ==
    [][(NextClick \/ SelectorChange \/ RankingClick \/ MapClick \/ SortToggle)
          => SelectedRowInSelection']_vars

\* the instant an axis bound or a stored bound names, whether written with a
\* blank or with a 'T' before the time
InstantOf(text) ==
    parse_time_string([i \in DOMAIN Val(text) |->
                          IF Val(text)[i] = "T" THEN " " ELSE Val(text)[i]])

BothBounds(range) ==
    /\ ~IsNone(range)
    /\ TruthyText(Val(range).start) /\ TruthyText(Val(range).end)

\* C13: whenever time_range holds both bounds, the x axis of the main chart
\* (a chart with data) runs from start to end and is not on auto-range, also
\* after a selection change or an advance has rebuilt the chart.
C13_TimeRangeOverridesAxis ==
    (/\ page = "main" /\ BothBounds(time_range)
     /\ ~IsNone(graph_fig) /\ Val(graph_fig).traces # <<>>)
    => /\ ~IsNone(Val(graph_fig).xrange)
       /\ TruthyText(Val(Val(graph_fig).xrange)[1])
       /\ TruthyText(Val(Val(graph_fig).xrange)[2])
       /\ InstantOf(Val(Val(graph_fig).xrange)[1]) = InstantOf(Val(time_range).start)
       /\ InstantOf(Val(Val(graph_fig).xrange)[2]) = InstantOf(Val(time_range).end)
       /\ Val(graph_fig).autorange # Some(TRUE)

\* C14: a route change swaps the page and nothing else: when the user comes
\* back to the main page from the exceptions page, selected_ids,
\* page_offset, sort_order and time_range are what they were when the main
\* page was left.
C14_RoundTripKeepsState ==
    [][(DisplayPageNoting("/") /\ page = "exceptions" /\ ~IsNone(left)) =>
          /\ selected_ids' = Val(left).selected_ids
          /\ current_offset' = Val(left).current_offset
          /\ sort_order' = Val(left).sort_order
          /\ time_range' = Val(left).time_range]_vars

\* C15: a rejected time input of the exceptions page (malformed, or both
\* sides parse and start >= end) updates nothing but the error message: the
\* exception map, the exception chart with its x-axis range, and what the
\* two inputs hold are as they were.
C15_ExceptionsNoPartialUpdate ==
    [][\A text \in TimeTexts :
          /\ (ExcEditStartWith(text) /\ Rejected(Some(text), exc_end)) =>
                /\ exc_map' = exc_map /\ exc_graph' = exc_graph
                /\ exc_start' = Some(text) /\ exc_end' = exc_end
          /\ (ExcEditEndWith(text) /\ Rejected(exc_start, Some(text))) =>
                /\ exc_map' = exc_map /\ exc_graph' = exc_graph
                /\ exc_start' = exc_start /\ exc_end' = Some(text)]_vars

\* rows_for(ids, start, end) of the exceptions path: the source rows of the
\* series in ids whose timestamp lies within the bounds the two inputs stand
\* for
BoundedRows(rows, ids, start_in, end_in) ==
    SelectSeq(rows, LAMBDA row :
        /\ \E i \in DOMAIN ids : ids[i] = row.ts_id
        /\ IsNone(BoundStoodFor(start_in, DefaultStart))
              \/ DtLeq(Val(BoundStoodFor(start_in, DefaultStart)), row.timestamp)
        /\ IsNone(BoundStoodFor(end_in, DefaultEnd))
              \/ DtLeq(row.timestamp, Val(BoundStoodFor(end_in, DefaultEnd))))

\* C16: the exceptions page charts the rows of the selected series that lie
\* within the active time bounds, start <= timestamp <= end, not the full
\* row-set of the series: whenever the exception chart is redrawn for a
\* list of series and well-formed inputs, its traces are those of the
\* time-bounded rows.
C16_ChartRowsTimeBounded ==
    [][(/\ page' = "exceptions" /\ exc_graph' # exc_graph /\ ~IsNone(exc_graph')
        /\ exc_selector'.kind = "list" /\ exc_selector'.v # <<>>
        /\ ~Malformed(exc_start') /\ ~Malformed(exc_end'))
       => Val(exc_graph').traces =
             TracesOf(BoundedRows(df, exc_selector'.v, exc_start', exc_end'),
                      UniqueSortedIds(BoundedRows(df, exc_selector'.v, exc_start', exc_end')))]_vars

\* the first 19 characters of a text
First19(text) == SubSeq(text, 1, Min2(19, Len(text)))

\* what typing start and end into the two inputs of the exceptions page
\* yields
TypedOutcome(start, end) ==
    update_exception_map("exception-time-start", Some(start), Some(end), exc_selector,
                         None, Val(geo_store), full_time_range, df_exceptions)

\* The map and the error message are those of the typed texts; written says
\* whether the texts are put into the inputs also when they are rejected
ZoomAsTyped(start, end, written) ==
    \E typed \in {TypedOutcome(start, end)} :
        /\ exc_map' = Write(exc_map, typed.map)
        /\ exc_error' = Write(exc_error, typed.error)
        /\ IF typed.map.upd \/ written
           THEN exc_start' = Some(start) /\ exc_end' = Some(end)
           ELSE exc_start' = exc_start /\ exc_end' = exc_end

ZoomOutcome(relayout, written) ==
    IF Val(relayout).autorange THEN ZoomAsTyped(<<>>, <<>>, written)
    ELSE IF TruthyText(Val(relayout).r0) /\ TruthyText(Val(relayout).r1)
    THEN ZoomAsTyped(First19(Val(Val(relayout).r0)), First19(Val(Val(relayout).r1)),
                     written)
    ELSE TRUE

\* C17, as stated: a zoom to (a, b) has the outcome of typing the first 19
\* characters of a and of b, and writes these texts into the two inputs,
\* whatever the outcome; a zoom reset does the same with two empty texts.
C17_ZoomWritesInputs ==
    [][\A relayout \in Relayouts :
          ExcZoomWith(relayout) => ZoomOutcome(relayout, TRUE)]_vars

\* C17: a zoom to (a, b) has the outcome (map recomputed, or format or
\* ordering error and the map as it was) of typing the first 19 characters
\* of a and of b; the two texts are written into the inputs when they are
\* accepted, and the inputs are left as they were when they are rejected.
\* A zoom reset does the same with two empty texts: accepted, it empties
\* both inputs.
C17_ZoomAsTypedEntry ==
    [][\A relayout \in Relayouts :
          ExcZoomWith(relayout) => ZoomOutcome(relayout, FALSE)]_vars

\* a zoom whose first bound has no seconds was refused: the message names
\* the bound, the start input holds something else
C17_Witness ==
    /\ page = "exceptions"
    /\ exc_error = Some(InvalidFormat(ZOOM_MINUTES))
    /\ exc_start # Some(ZOOM_MINUTES)
    /\ ~IsNone(exc_graph)

\* the distinct ids of a table, ascending
IsAscending(ids) == \A i \in 1..(Len(ids) - 1) : StrLess(ids[i], ids[i + 1])
IsAllIdsOf(ids, rows) ==
    IsAscending(ids) /\ IdSet(ids) = {rows[i].ts_id : i \in DOMAIN rows}

\* all_ids()[o : min(o + limit, N)]
SliceOf(ids, o, limit) ==
    [i \in 1..Max2(0, Min2(o + limit, Len(ids)) - o) |-> ids[o + i]]

\* C18: page(offset, limit), for every integer offset and every limit >= 0,
\* is the slice all_ids()[o : min(o + limit, N)] with o = max(offset, 0):
\* at most limit ids, in sorted order, for a negative offset what offset 0
\* gives, and empty when offset >= N.
C18_PageIsSlice ==
    (call.fn = "get_paginated_ids" /\ ~IsNone(ret)) =>
        /\ IsAllIdsOf(Val(ts_ids_cache), df)
        /\ Val(ret) = SliceOf(Val(ts_ids_cache), Max2(call.offset, 0), call.limit)
        /\ Len(Val(ret)) <= call.limit
        /\ IsAscending(Val(ret))
        /\ call.offset >= Len(Val(ts_ids_cache)) => Val(ret) = <<>>
        /\ call.offset < 0 => Val(ret) = SliceOf(Val(ts_ids_cache), 0, call.limit)

\* a page asked for at a negative offset: the first two ids
C18_Witness ==
    /\ call.fn = "get_paginated_ids" /\ call.offset < 0 /\ call.limit = 2
    /\ Len(Val(ts_ids_cache)) >= 3
    /\ ret = Some(<<Val(ts_ids_cache)[1], Val(ts_ids_cache)[2]>>)

\* C19: all_ids() is the distinct ids in ascending order; the source table
\* is scanned at most once per store, every later call being answered from
\* the cache, also when the cached sequence is empty; count() is the length
\* of that sequence.
C19_AllIdsCached ==
    /\ scans <= 1
    /\ IsNone(ts_ids_cache) <=> scans = 0
    /\ ~IsNone(ts_ids_cache) => IsAllIdsOf(Val(ts_ids_cache), df)
    /\ call.fn = "get_all_ts_ids" => ret = ts_ids_cache
    /\ call.fn = "get_total_count" => ret = Some(Len(Val(ts_ids_cache)))
    /\ (call.fn \in {"get_all_ts_ids", "get_total_count"} /\ call.cached) => scans = 1

\* an empty table: all_ids() was answered from the cache, with the empty
\* sequence, after the one scan
C19_Witness ==
    /\ df = <<>>
    /\ call.fn = "get_all_ts_ids" /\ call.cached
    /\ ret = Some(<<>>) /\ scans = 1

\* C20: rows_for(ids) is the source rows whose series id is in ids, in the
\* order of the source table and with all its columns; for an empty ids and
\* for ids that name no series it is zero rows with the full column set,
\* not an error.
C20_RowsFor ==
    (call.fn = "get_ts_data" /\ ~IsNone(ret)) =>
        /\ ~Val(ret).raised
        /\ Val(ret).rows = SelectSeq(df, LAMBDA row : row.ts_id \in IdSet(call.ts_ids))
        /\ Val(ret).columns = SourceColumns
        /\ \A i \in DOMAIN Val(ret).rows :
              DOMAIN Val(ret).rows[i] = IdSet(SourceColumns)

\* rows were asked for an unknown id, of a table that has rows: none came
C20_Witness ==
    /\ call.fn = "get_ts_data" /\ call.ts_ids = <<XX>>
    /\ df # <<>>
    /\ ret = Some([raised |-> FALSE, rows |-> <<>>, columns |-> SourceColumns])

\* the instant a bound of aggregate stands for; none when it is omitted
AggregateBound(bound) == IF TruthyText(bound) THEN BoundOf(bound) ELSE None

\* the exception rows (by position) of a series inside the closed window
RowsInWindow(id, start, end) ==
    {i \in DOMAIN df_exceptions :
        /\ df_exceptions[i].ts_id = id
        /\ ~IsNone(start) => DtLeq(Val(start), df_exceptions[i].timestamp)
        /\ ~IsNone(end) => DtLeq(df_exceptions[i].timestamp, Val(end))}

RECURSIVE CountOver(_)
CountOver(I) ==
    IF I = {} THEN 0
    ELSE LET i == CHOOSE j \in I : TRUE IN df_exceptions[i].count + CountOver(I \ {i})

ExceptionIds == {df_exceptions[i].ts_id : i \in DOMAIN df_exceptions}

\* C21: aggregate(start, end) has one row per series id with at least one
\* exception row at start <= timestamp <= end (both inclusive, an omitted
\* bound unbounded), carrying the sum of the counts of exactly those rows; a
\* series without a row in the interval is absent, not present with sum 0.
C21_AggregateWindow ==
    (call.fn = "get_aggregated_exceptions" /\ ~IsNone(ret)) =>
        LET start == AggregateBound(call.start_time)
            end   == AggregateBound(call.end_time)
        IN  /\ DOMAIN Val(ret) = {id \in ExceptionIds : RowsInWindow(id, start, end) # {}}
            /\ \A id \in DOMAIN Val(ret) :
                  Val(ret)[id] = CountOver(RowsInWindow(id, start, end))

\* a window that ends at the instant of T1's only row and starts there: T1
\* is in the result with its count, T10 is absent
C21_Witness ==
    /\ call.fn = "get_aggregated_exceptions"
    /\ df_exceptions = EXCEPTION_ROWS
    /\ call.start_time = Some(Strftime(Day(15))) /\ call.end_time = Some(Strftime(Day(15)))
    /\ ret = Some([id \in {T1} |-> 1])

\* C22: for every series and every sub-window, the sum aggregate(start, end)
\* returns is at most the sum aggregate() returns for that series.
C22_AggregateMonotone ==
    (call.fn = "get_aggregated_exceptions" /\ ~IsNone(ret)) =>
        LET unbounded == get_aggregated_exceptions(df_exceptions, None, None)
        IN  \A id \in DOMAIN Val(ret) :
                id \in DOMAIN unbounded /\ Val(ret)[id] <= unbounded[id]

\* a sub-window that leaves out one of T10's rows: a smaller sum
C22_Witness ==
    /\ call.fn = "get_aggregated_exceptions"
    /\ df_exceptions = EXCEPTION_ROWS
    /\ ~IsNone(call.start_time) /\ call.end_time = Some(TXT_D10)
    /\ T10 \in DOMAIN Val(ret) /\ Val(ret)[T10] = 2
    /\ get_aggregated_exceptions(df_exceptions, None, None)[T10] = 5

\* the exception map has one point per geo row, in the rows' order, coloured
\* with the sum of the series' exception counts within the bounds the two
\* inputs stand for, 0 when it has no exception row there
MapColouredFor(map, start_in, end_in) ==
    /\ ~IsNone(map)
    /\ DOMAIN Val(map).customdata = DOMAIN Val(geo_store)
    /\ \A i \in DOMAIN Val(geo_store) :
          /\ Val(map).customdata[i] = Val(geo_store)[i].ts_id
          /\ Val(map).color[i] =
                Some(CountOver(RowsInWindow(Val(geo_store)[i].ts_id,
                                            BoundStoodFor(start_in, DefaultStart),
                                            BoundStoodFor(end_in, DefaultEnd))))

\* C23: after a successful time-range update of the exceptions page every
\* geo row appears exactly once on the exception map, its colour value the
\* series' aggregated exception sum in [start, end] when the aggregate has a
\* row for it, and 0 otherwise.
C23_ExceptionMapFilled ==
    [][\A text \in TimeTexts :
          /\ (ExcEditStartWith(text) /\ ~Rejected(Some(text), exc_end)) =>
                MapColouredFor(exc_map', Some(text), exc_end)
          /\ (ExcEditEndWith(text) /\ ~Rejected(exc_start, Some(text))) =>
                MapColouredFor(exc_map', exc_start, Some(text))]_vars

\* the end bound was set to 2024-01-10: T10 has one exception row up to
\* then, T1 has none and is on the map with 0
C23_Witness ==
    /\ page = "exceptions" /\ df_exceptions = EXCEPTION_ROWS
    /\ exc_start = None /\ exc_end = Some(TXT_D10) /\ exc_error = Some(<<>>)
    /\ ~IsNone(exc_map)
    /\ Val(exc_map).customdata = <<T10, T1>>
    /\ Val(exc_map).color = <<Some(2), Some(0)>>

\* the first column, in the table's column order, that is not the id column
FirstNonIdColumn(columns) ==
    columns[CHOOSE i \in DOMAIN columns :
                /\ columns[i] # "ts_id"
                /\ \A j \in 1..(i - 1) : columns[j] = "ts_id"]

\* C24: what the sort-order handler gives the ranking table is a permutation
\* of the stored ranking rows ordered by the first column, in the table's
\* column order, that is not the series-id column: descending iff
\* sort_order is 'desc', ascending otherwise; so too when the table carries
\* several non-id columns (latitude and longitude ahead of the metric).
C24_SortByFirstNonIdColumn ==
    (page = "main" /\ ~IsNone(ranking_store)) =>
        /\ IsPermutation(Val(ranking_store).rows, table_data)
        /\ \A i \in 1..(Len(table_data) - 1) :
              LET col == FirstNonIdColumn(Val(ranking_store).columns)
              IN  IF sort_order = "desc"
                  THEN table_data[i][col] >= table_data[i + 1][col]
                  ELSE table_data[i][col] <= table_data[i + 1][col]

\* a ranking with coordinates, ascending: the rows stand by latitude, the
\* metric runs the other way
C24_Witness ==
    /\ page = "main" /\ ranking_store = Some(RANKING_GEO) /\ sort_order = "asc"
    /\ Len(table_data) = 2
    /\ table_data[1].latitude < table_data[2].latitude
    /\ table_data[1].score > table_data[2].score

\* the map has one point per geo row, of the selected size exactly when the
\* row's series is in selected_ids
MapHighlightsSelection ==
    /\ ~IsNone(map_fig)
    /\ DOMAIN Val(map_fig).size = DOMAIN Val(geo_store)
    /\ \A i \in DOMAIN Val(geo_store) :
          /\ Val(map_fig).customdata[i] = Val(geo_store)[i].ts_id
          /\ Val(map_fig).size[i] = SIZE_SELECTED
                <=> Val(geo_store)[i].ts_id \in IdSet(selected_ids)
          /\ Val(map_fig).size[i] = SIZE_UNSELECTED
                <=> Val(geo_store)[i].ts_id \notin IdSet(selected_ids)

\* C25: the map has one point per geo row, and after every selection change
\* on the main page (page advance, multi-select edit, click on a ranking
\* row, map click) a geo row's marker has the selected size (18) if and only if its
\* series id is in the current selected_ids, and the unselected size (10)
\* otherwise; an empty selection highlights nothing.
C25_MapFollowsSelection ==
    [][((\/ NextClick
         \/ SelectorChange
         \/ \E rows \in RowChoices : rows # <<>> /\ RankingClickWith(rows)
         \/ MapClick) /\ ~IsNone(geo_store))
          => MapHighlightsSelection']_vars

\* the second geo row's series is the selection, and it alone is highlighted
C25_Witness ==
    /\ page = "main" /\ ~IsNone(geo_store) /\ ~IsNone(map_fig)
    /\ selected_ids = <<T1>>
    /\ Val(map_fig).customdata = <<T10, T1>>
    /\ Val(map_fig).size = <<SIZE_UNSELECTED, SIZE_SELECTED>>

\* the names a configuration binds
BoundNames(config) ==
    {config.timestamp, config.ts_id, config.actual, config.forecast}
    \cup (IF IsNone(config.extrema) THEN {} ELSE {Val(config.extrema)})
    \cup (IF IsNone(config.features) THEN {} ELSE IdSet(Val(config.features)))

\* pieces is names with ', ' between them
IsNameList(pieces, names) ==
    /\ Len(pieces) = IF names = <<>> THEN 0 ELSE 2 * Len(names) - 1
    /\ \A i \in DOMAIN names : pieces[2 * i - 1] = names[i]
    /\ \A i \in 1..(Len(names) - 1) : pieces[2 * i] = ", "

\* the names in a list of names with a separator between them
NamesIn(pieces) == [i \in 1..((Len(pieces) + 1) \div 2) |-> pieces[2 * i - 1]]

\* C26: validate succeeds iff every bound name (timestamp, series id,
\* actual, forecast, extrema when set, each feature name) is among the
\* available columns; otherwise it fails with one error that lists every
\* missing name, then the available columns, as 'Missing columns in
\* dataframe: <names>. Available columns: <names>'.
C26_ValidateListsAllMissing ==
    (call.fn = "validate" /\ ~IsNone(ret)) =>
        LET bound   == BoundNames(call.args.config)
            columns == call.args.columns
            message == Val(ret).message
        IN  /\ ~Val(ret).raised <=> bound \subseteq IdSet(columns)
            /\ Val(ret).raised =>
                  \E k \in DOMAIN message :
                      LET listed == NamesIn(SubSeq(message, 2, k - 1))
                      IN  /\ message[1] = "Missing columns in dataframe: "
                          /\ message[k] = ". Available columns: "
                          /\ IsNameList(SubSeq(message, 2, k - 1), listed)
                          /\ IdSet(listed) = bound \ IdSet(columns)
                          /\ Len(listed) = Cardinality(bound \ IdSet(columns))
                          /\ IsNameList(SubSeq(message, k + 1, Len(message)), columns)

\* two of three feature names and the timestamp name are missing: all three
\* are in the one message
C26_Witness ==
    /\ call.fn = "validate" /\ ~IsNone(ret)
    /\ Val(ret).raised
    /\ SubSeq(Val(ret).message, 1, 7)
          = <<"Missing columns in dataframe: ", "time", ", ", "wind", ", ", "rain",
              ". Available columns: ">>

HasCoordinates(ranking) ==
    /\ ~IsNone(ranking)
    /\ {"latitude", "longitude"} \subseteq IdSet(Val(ranking).columns)

\* C27: visualize_timeseries with df_exceptions given fails with a
\* validation error, and returns no application, when exception_count_col is
\* missing or when ranking_df is absent or lacks latitude/longitude; the
\* exceptions page exists only when both are present, and never without
\* df_exceptions.
C27_ExceptionsNeedCompanions ==
    (call.fn = "visualize_timeseries" /\ ~IsNone(ret)) =>
        LET args == call.args
            companions == ~IsNone(args.exception_count_col) /\ HasCoordinates(args.ranking_df)
        IN  /\ (args.df_exceptions /\ ~companions) =>
                  /\ Val(ret).raised /\ Val(ret).pages = {}
                  /\ Val(ret).error # <<>>
            /\ "exceptions" \in Val(ret).pages => (args.df_exceptions /\ companions)
            /\ (args.df_exceptions /\ companions
                    /\ BoundNames(args.config) \subseteq IdSet(args.columns))
                  => (~Val(ret).raised /\ Val(ret).pages = {"main", "exceptions"})
            /\ (~args.df_exceptions /\ BoundNames(args.config) \subseteq IdSet(args.columns))
                  => (~Val(ret).raised /\ Val(ret).pages = {"main"})

\* an exceptions table with its count column and a ranking that has a
\* latitude but no longitude: the call failed
C27_Witness ==
    /\ call.fn = "visualize_timeseries" /\ ~IsNone(ret)
    /\ call.args.df_exceptions /\ ~IsNone(call.args.exception_count_col)
    /\ call.args.ranking_df = Some(RANKING_LATITUDE)
    /\ Val(ret).raised /\ Val(ret).error = EXCEPTION_GEO_ERROR

\* the series of the table that have a non-null value in the extrema column
\* the configuration binds; none when it binds no such column
WithExtrema(config) ==
    IF IsNone(config.extrema) THEN {}
    ELSE {df[i].ts_id : i \in {j \in DOMAIN df : ~IsNone(df[j][Val(config.extrema)])}}

\* the traces that stand before those of the i-th series
RECURSIVE TracesBefore(_, _, _)
TracesBefore(ids, i, marked) ==
    IF i = 1 THEN 0
    ELSE TracesBefore(ids, i - 1, marked) + 2 + (IF ids[i - 1] \in marked THEN 1 ELSE 0)

NumFeatures(config) == IF IsNone(config.features) THEN 0 ELSE Len(Val(config.features))

\* x holds the timestamps of the series' rows, ascending
IsSortedStampsOf(x, id) ==
    /\ IdSet(x) = {df[i].timestamp : i \in {j \in DOMAIN df : df[j].ts_id = id}}
    /\ \A i \in 1..(Len(x) - 1) : DtLess(x[i], x[i + 1])

\* C28: for non-empty rows with K distinct series the chart has, for each
\* series id in sorted order, an '<id> (actual)' trace, then an '<id>
\* (forecast)' trace, points in ascending timestamp order, then an '<id>
\* (extrema)' trace only if extrema is bound and the series has a non-null
\* extrema value, and after them one trace per configured feature: 2K
\* traces with neither, one more per series with extrema, F more for F
\* features whatever K is.
C28_TraceList ==
    (call.fn = "create_figure" /\ ~IsNone(ret) /\ df # <<>>) =>
        LET traces == Val(ret).traces
            config == call.config
            K      == Cardinality({df[i].ts_id : i \in DOMAIN df})
            ids    == CHOOSE s \in [1..K -> {df[i].ts_id : i \in DOMAIN df}] : IsAllIdsOf(s, df)
            marked == WithExtrema(config)
            F      == NumFeatures(config)
        IN  /\ Len(traces) = 2 * K + Cardinality(marked) + F
            /\ \A i \in 1..K :
                  LET p == TracesBefore(ids, i, marked)
                  IN  /\ traces[p + 1].id = ids[i] /\ traces[p + 1].kind = "actual"
                      /\ IsSortedStampsOf(traces[p + 1].x, ids[i])
                      /\ traces[p + 2].id = ids[i] /\ traces[p + 2].kind = "forecast"
                      /\ IsSortedStampsOf(traces[p + 2].x, ids[i])
                      /\ ids[i] \in marked =>
                            (traces[p + 3].id = ids[i] /\ traces[p + 3].kind = "extrema")
            /\ \A f \in 1..F :
                  /\ traces[2 * K + Cardinality(marked) + f].kind = "feature"
                  /\ traces[2 * K + Cardinality(marked) + f].id = <<Val(config.features)[f]>>

\* two series, one of them with an extrema value, and two features: seven
\* traces, the third the extrema of the first series
C28_Witness ==
    /\ call.fn = "create_figure" /\ ~IsNone(ret)
    /\ ~IsNone(call.config.extrema) /\ NumFeatures(call.config) = 2
    /\ Len(Val(ret).traces) = 7
    /\ Val(ret).traces[3].kind = "extrema" /\ Val(ret).traces[3].id = T10
    /\ Val(ret).traces[4].kind = "actual" /\ Val(ret).traces[4].id = T2
    /\ Val(ret).traces[6].kind = "feature"

\* the selection of a call to a chart handler materialises no rows
SelectsNoRows(selected) ==
    \/ selected.kind = "none"
    \/ \A i \in DOMAIN df : df[i].ts_id \notin IdSet(selected.v)

\* C29: for every selection that materialises zero rows (empty selection,
\* absent selection, only ids not in the table), with or without extrema
\* and features configured, the chain selection -> rows_for -> build gives a
\* placeholder chart with zero traces and a 'no data' title, and the handler
\* does not fail.
C29_EmptyIsPlaceholder ==
    (/\ call.fn \in {"update_graph", "update_graph_with_features"}
     /\ SelectsNoRows(call.selected)) =>
        /\ ~IsNone(ret)
        /\ Val(ret).traces = <<>>
        /\ Val(ret).title \in {"No timeseries selected", "No data selected"}

\* features and extrema configured, the features shown, and the one id
\* selected is not in the table, which has rows
C29_Witness ==
    /\ call.fn = "update_graph_with_features" /\ df # <<>>
    /\ call.selected = ListV(<<XX>>)
    /\ call.features_toggle = ListV(<< <<"show">> >>)
    /\ ~IsNone(call.config.extrema)
    /\ ret = Some(EmptyFig("No data selected"))

\* C30: the data stores are read-only for the session: no event handler,
\* in any sequence of events, changes the rows of the series store or its
\* cached id list, the rows of the exception store, or the stored ranking
\* and geo data; the id cache is filled during construction, so no handler
\* scans for it; sorting re-orders the displayed copy only.
C30_StoresReadOnly ==
    [][/\ df' = df /\ df_exceptions' = df_exceptions
       /\ ranking_store' = ranking_store /\ geo_store' = geo_store
       /\ ~IsNone(ts_ids_cache) /\ ts_ids_cache' = ts_ids_cache
       /\ scans' = scans]_vars

\* pages were advanced and the table sorted: the table shows another order
\* than the stored ranking, and the one scan is that of construction
C30_Witness ==
    /\ page = "main" /\ ~IsNone(ranking_store)
    /\ advances >= 1 /\ scans = 1
    /\ ts_ids_cache = Some(UniqueSortedIds(df))
    /\ table_data # Val(ranking_store).rows
    /\ IsPermutation(Val(ranking_store).rows, table_data)

-----------------------------------------------------------------------------
(* The session as constructed *)

\* the first min(count, Len(ids)) of ids
FirstIds(ids, count) == [i \in 1..Min2(count, Len(ids)) |-> ids[i]]

\* C31: a session starts with page_offset 0, no time range, the sort order
\* 'desc' and the first min(display_count, N) ids of the sorted id list
\* selected (none when there are no ids).  The stores hold these values in
\* the layout as constructed; the selector and the sort order hold them in
\* the single-page layout and, in routed mode, in the main page as
\* display_page first builds it.
C31_InitialState ==
    /\ page = "layout" =>
          /\ current_offset = 0
          /\ time_range = None
          /\ ~has_exceptions =>
                /\ sort_order = "desc"
                /\ selected_ids = FirstIds(AllIds, display_count)
    /\ [][page = "layout" /\ page' = "main" =>
              /\ current_offset' = 0
              /\ sort_order' = "desc"
              /\ selected_ids' = FirstIds(AllIds, display_count)]_vars

\* a session as constructed whose first page is shorter than the id list
C31_Witness ==
    /\ page = "layout" /\ ~has_exceptions
    /\ display_count >= 1 /\ N > display_count
    /\ Len(selected_ids) = display_count
    /\ selected_ids[1] = AllIds[1]
    /\ current_offset = 0 /\ time_range = None /\ sort_order = "desc"

-----------------------------------------------------------------------------
(* Scaling and the map's view *)

\* the values of a column
ColumnValues(rows, c) == {rows[i][c] : i \in DOMAIN rows}

\* C32: min-max scaling maps each listed column on its own: a constant
\* column scales to 0.5 in every row; any other column scales by
\* (v - min) / (max - min), so that every output lies in [0, 1], the minimum
\* maps to 0 and the maximum to 1; no division by zero occurs.
C32_MinMaxScale ==
    call.fn = "minmax_scale" /\ ~IsNone(ret) =>
        /\ DOMAIN Val(ret) = {call.columns[k] : k \in DOMAIN call.columns}
        /\ \A c \in DOMAIN Val(ret) :
            /\ DOMAIN Val(ret)[c] = DOMAIN call.df
            /\ \A i \in DOMAIN call.df :
                 With(Val(ret)[c][i], LAMBDA out :
                 With(call.df[i][c], LAMBDA v :
                     /\ "error" \notin DOMAIN out
                     /\ out.den # 0
                     /\ IF Cardinality(ColumnValues(call.df, c)) = 1
                        THEN 2 * out.num = out.den
                        ELSE \E lo, hi \in ColumnValues(call.df, c) :
                               /\ \A x \in ColumnValues(call.df, c) : lo <= x /\ x <= hi
                               /\ out.num * (hi - lo) = (v - lo) * out.den
                               /\ out.den > 0 /\ 0 <= out.num /\ out.num <= out.den
                               /\ (v = lo => out.num = 0)
                               /\ (v = hi => out.num = out.den)))

\* two columns scaled in one call, one constant and one with three values
C32_Witness ==
    /\ call.fn = "minmax_scale" /\ ~IsNone(ret)
    /\ call.columns = <<"wind", "temp">>
    /\ Cardinality(ColumnValues(call.df, "wind")) = 1
    /\ Cardinality(ColumnValues(call.df, "temp")) = 3
    /\ \E i \in DOMAIN call.df :
          /\ Val(ret)["wind"][i] = HALF
          /\ Val(ret)["temp"][i].num > 0
          /\ Val(ret)["temp"][i].num < Val(ret)["temp"][i].den

\* C33: create_map_figure sets the map's centre to the midpoint of the
\* points' extent: lat = (lat_min + lat_max) / 2 and
\* lon = (lon_min + lon_max) / 2, here in hundredths of a degree.
C33_MapCentred ==
    call.fn = "create_map_figure" /\ ~IsNone(ret) /\ call.geo_df # <<>> =>
        \E lat_min, lat_max \in ColumnValues(call.geo_df, "latitude"),
           lon_min, lon_max \in ColumnValues(call.geo_df, "longitude") :
            /\ \A x \in ColumnValues(call.geo_df, "latitude") : lat_min <= x /\ x <= lat_max
            /\ \A x \in ColumnValues(call.geo_df, "longitude") : lon_min <= x /\ x <= lon_max
            /\ Val(ret).mapbox.center = Some([lat |-> 50 * (lat_min + lat_max),
                                              lon |-> 50 * (lon_min + lon_max)])

-----------------------------------------------------------------------------
(* Selection, cursor and chart *)

\* C34: selection and cursor stay in step: where selected_ids was last set
\* by the session's or the page's initialisation or by 'Next', it is
\* page(page_offset, display_count), in single-page mode and in routed mode,
\* also after a visit of the exceptions page.  Written at the steps that
\* set it so: nothing but 'Next' moves the cursor.
C34_SelectionInStep ==
    /\ page = "layout" /\ ~has_exceptions =>
          selected_ids = PageOf(current_offset, display_count)
    /\ [][/\ page' = "main"
          /\ page # "main" \/ NextClick
          => selected_ids' = PageOf(current_offset', display_count)]_vars

\* rows_for(selected_ids): the rows of the selected series
SelectedRows ==
    SelectSeq(df, LAMBDA row : \E i \in DOMAIN selected_ids : selected_ids[i] = row.ts_id)

\* C35: the chart reflects the selection: whenever the main page is
\* displayed (between two events), the main chart's traces are those of
\* build(rows_for(selected_ids)), in single-page mode and in routed mode,
\* from the first rendering of the page on.
C35_ChartReflectsSelection ==
    page = "main" =>
        /\ ~IsNone(graph_fig)
        /\ Val(graph_fig).traces = TracesOf(SelectedRows, UniqueSortedIds(SelectedRows))

-----------------------------------------------------------------------------
(* Pagination as a whole *)

PagesDisjoint(pages) ==
    \A i, j \in DOMAIN pages : i # j => IdSet(pages[i]) \cap IdSet(pages[j]) = {}
NoRepeat(ids) == \A i, j \in DOMAIN ids : i # j => ids[i] # ids[j]
ShownIds == UNION {IdSet(shown[i]) : i \in DOMAIN shown}

\* the page on display is the last of a cycle
CycleEnd ==
    /\ page = "main" /\ selected_ids = shown[Len(shown)]
    /\ current_offset + display_count >= N

\* C36: pagination covers the universe: for display_count >= 1 the pages
\* shown during one cycle of 'Next' clicks from offset 0 on are pairwise
\* disjoint, no id comes twice, and with the last page of the cycle their
\* union is all_ids(); under repeated 'Next' every cycle comes to its last
\* page, so every series id is eventually displayed.
C36_PaginationCovers ==
    /\ [](display_count >= 1 =>
             /\ PagesDisjoint(shown)
             /\ \A i \in DOMAIN shown : NoRepeat(shown[i])
             /\ ShownIds \subseteq IdSet(AllIds)
             /\ current_offset + display_count >= N => ShownIds = IdSet(AllIds))
    /\ [](page = "main" /\ display_count >= 1 => <>CycleEnd)

\* the end of a cycle of two pages, the second one shorter than the first
C36_Witness ==
    /\ page = "main" /\ display_count = 2 /\ N = 3
    /\ Len(shown) = 2 /\ Len(shown[2]) = 1
    /\ selected_ids = shown[2]
    /\ ShownIds = IdSet(AllIds)


-----------------------------------------------------------------------------
(* Termination of the dispatch *)

\* g writes an Input of another callback h
Wired(g, h) == g.name # h.name /\ g.outputs \cap h.inputs # {}

\* the callbacks reached from those of from in 1..n steps of Wired
RECURSIVE ReachFrom(_, _, _)
ReachFrom(callbacks, from, n) ==
    IF n = 0 THEN {}
    ELSE With({h \in callbacks : \E g \in from : Wired(g, h)},
              LAMBDA after : after \cup ReachFrom(callbacks, after, n - 1))

\* the callbacks that have one of their Outputs as an Input
SelfWriting(callbacks) == {c.name : c \in {d \in callbacks : d.outputs \cap d.inputs # {}}}

\* C37: in either registration, the only cycles of the wiring are callbacks
\* that write their own Inputs (update_time_range, update_exception_map);
\* after a browser event every callback is invoked at most once, and the
\* dispatch comes to rest with nothing pending.
C37_EventTerminates ==
    /\ [](\A c \in Registered(call) :
             c \notin ReachFrom(Registered(call), {c}, Cardinality(Registered(call))))
    /\ [](SelfWriting(Registered(call)) \subseteq {"update_time_range", "update_exception_map"})
    /\ []NoRepeat(ran)
    /\ [](Len(ran) < MaxInvocations)
    /\ [](pending # {} => <>(pending = {}))

\* a zoom was dispatched: update_exception_map rewrote its own Inputs,
\* update_exception_graph followed, and nothing is pending
C37_Witness ==
    /\ pending = {}
    /\ ran = <<"update_exception_map", "update_exception_graph">>

-----------------------------------------------------------------------------
(* The two registrations compared *)

\* C38: the main-page callbacks that register_routing_callbacks registers
\* are those of register_callbacks: the same names, with the same Outputs,
\* the same Inputs and the same prevent_initial_call.
C38_SameMainCallbacks ==
    call.fn = "register_routing_callbacks" =>
        routing_main_callbacks(call.has_features, call.ranking_df, call.geo_df)
            = register_callbacks(call.has_features, call.ranking_df, call.geo_df)

-----------------------------------------------------------------------------
(* The ordering check and the defaults *)

\* C39: when the user edits a time input and one of the two inputs is
\* blank, so that the dataset's bound stands for it, and the other is not
\* malformed, no "Start time must be before end time" is shown and the
\* time range is stored.
C39_OrderOnlyForTyped ==
    [][((EditStart \/ EditEnd)
        /\ (IsBlank(start_input') \/ IsBlank(end_input'))
        /\ ~Malformed(start_input') /\ ~Malformed(end_input'))
       => /\ time_error' # Some(ORDER_ERROR)
          /\ ~IsNone(time_range')]_vars

-----------------------------------------------------------------------------
(* The highlight of the exceptions map *)

\* the ids that 'exception-ts-selector' holds: one id chosen in the
\* dropdown, the list a map click returned, or nothing
ExceptionSelection ==
    IF exc_selector.kind = "str" THEN {exc_selector.v}
    ELSE IF exc_selector.kind = "list" THEN {exc_selector.v[i] : i \in DOMAIN exc_selector.v}
    ELSE {}

\* C40: on the exceptions page, once update_exception_map has drawn the
\* map without an error, a point has the selected marker size exactly when
\* its id is the one the selector holds; an id that is only a part of the
\* selected id is not highlighted.
C40_ExactHighlight ==
    (/\ page = "exceptions" /\ exc_error = Some(<<>>)
     /\ ~IsNone(exc_map) /\ "size" \in DOMAIN Val(exc_map))
    => \A i \in DOMAIN Val(exc_map).size :
           Val(exc_map).size[i] = SIZE_SELECTED
               <=> Val(exc_map).customdata[i] \in ExceptionSelection

=============================================================================
